---- MODULE Spec2Model ----
(***************************************************************************)
(* StatusUpdateManagerProcess (status_update_manager_process.hpp): the     *)
(* manager actor, its streams, their checkpoint files and the retry timers *)
(* that `delay` keeps for it.                                              *)
(*                                                                         *)
(* Time is kept relative: a Timeout (a deadline in the code) is the time   *)
(* left until it, and Advance lets time pass for every timer at once.      *)
(* An Option<T> is the set of its values: None is {}, Some(x) is {x}.      *)
(***************************************************************************)
EXTENDS Integers, Sequences, FiniteSets, Bags, TLC

\* ------------------------------------------------------------------ bounds
MaxStreams == 1
MaxFrameworks == 1
MaxUUIDs == 2
MaxTimers == 2

StreamIds == 1..MaxStreams
FrameworkIds == 1..MaxFrameworks
UUIDs == 1..MaxUUIDs

\* slave/constants.hpp: the retry intervals, in ticks of the model's clock.
\* The minimum is two ticks, so that an operation can fall strictly inside
\* an interval; the maximum is no power-of-two multiple of the minimum, as
\* in the code (10 s and 10 min), so that the cap cuts a doubling short.
STATUS_UPDATE_RETRY_INTERVAL_MIN == 2
STATUS_UPDATE_RETRY_INTERVAL_MAX == 6

\* ------------------------------------------------------------------ values
None == {}
Some(x) == {x}
isSome(o) == o # {}
get(o) == CHOOSE x \in o : TRUE

Min(a, b) == IF a <= b THEN a ELSE b

\* An UpdateType message: the fields the manager reads.
Updates ==
  [status_uuid : {None} \cup {Some(u) : u \in UUIDs},
   framework_id : {None} \cup {Some(f) : f \in FrameworkIds},
   terminal : BOOLEAN]

\* The CheckpointType messages a stream writes.
UpdateRecord(update) == [type |-> "UPDATE", update |-> Some(update), uuid |-> None]
AckRecord(update) == [type |-> "ACK", update |-> None, uuid |-> update.status_uuid]

\* A checkpoint file: whether the path exists, the complete records in it,
\* and whether a partly written record follows them.
NoFile == [exists |-> FALSE, records |-> <<>>, torn |-> FALSE]
EmptyFile == [exists |-> TRUE, records |-> <<>>, torn |-> FALSE]

VARIABLES
  streams,           \* hashmap<IDType, Owned<StatusUpdateStream>>
  frameworkStreams,  \* hashmap<FrameworkID, hashset<IDType>>
  paused,            \* bool
  files,             \* the file at getPath(streamId), per stream id
  dirs,              \* the stream ids whose checkpoint directory exists
  timers,            \* bag of the delayed `timeout` dispatches not yet run
  aborted,           \* a CHECK failed: the process is gone
  result,            \* what the last operation returned
  forwarded,         \* the forwardCallback calls of the last operation
  intervals,         \* history: the duration each stream's timeout was armed with
  delivery           \* history: the updates each stream accepted and forwarded

vars == <<streams, frameworkStreams, paused, files, dirs, timers, aborted,
          result, forwarded, intervals, delivery>>

\* The manager's state and its surroundings as one value, so that a method
\* is an operator from world to world.
World ==
  [streams |-> streams, frameworkStreams |-> frameworkStreams,
   paused |-> paused, files |-> files, dirs |-> dirs, timers |-> timers,
   aborted |-> FALSE, check |-> "", forwarded |-> <<>>]

\* ------------------------------------------------- StatusUpdateStream
\* StatusUpdateStream(streamId, path, fd): `checkpointed` is path.isSome();
\* `linked` says that fd still names the file at `path` (os::rm unlinks it).
NewStream(checkpoint) ==
  [terminated |-> FALSE, frameworkId |-> None, timeout |-> None,
   pending |-> <<>>, checkpointed |-> checkpoint, linked |-> checkpoint,
   received |-> {}, acknowledged |-> {}, error |-> None]

\* next, were it to take the back of the queue.
Stream_back(stream) ==
  IF isSome(stream.error) THEN [error |-> TRUE, value |-> None]
  ELSE IF stream.pending # <<>>
    THEN [error |-> FALSE, value |-> Some(stream.pending[Len(stream.pending)])]
    ELSE [error |-> FALSE, value |-> None]

\* StatusUpdateStream::next
Stream_next(stream) ==
  IF isSome(stream.error) THEN [error |-> TRUE, value |-> None]
  ELSE IF stream.pending # <<>>
    THEN [error |-> FALSE, value |-> Some(Head(stream.pending))]
    ELSE [error |-> FALSE, value |-> None]

\* _handle, were an ACK never to end the stream.
Stream__handleRunning(stream, update, type) ==
  LET statusUuid == get(update.status_uuid) IN
  IF type = "UPDATE"
    THEN [stream EXCEPT
            !.frameworkId = IF isSome(update.framework_id)
                              THEN update.framework_id ELSE @,
            !.received = @ \cup {statusUuid},
            !.pending = Append(@, update)]
    ELSE [stream EXCEPT
            !.acknowledged = @ \cup {statusUuid},
            !.pending = Tail(@)]

\* _handle, were an ACK to leave the update at the front of the queue.
Stream__handleKept(stream, update, type) ==
  LET statusUuid == get(update.status_uuid) IN
  IF type = "UPDATE"
    THEN [stream EXCEPT
            !.frameworkId = IF isSome(update.framework_id)
                              THEN update.framework_id ELSE @,
            !.received = @ \cup {statusUuid},
            !.pending = Append(@, update)]
    ELSE [stream EXCEPT
            !.acknowledged = @ \cup {statusUuid},
            !.terminated = IF ~@ THEN update.terminal ELSE @]

\* StatusUpdateStream::_handle
Stream__handle(stream, update, type) ==
  LET statusUuid == get(update.status_uuid) IN
  IF type = "UPDATE"
    THEN [stream EXCEPT
            !.frameworkId = IF isSome(update.framework_id)
                              THEN update.framework_id ELSE @,
            !.received = @ \cup {statusUuid},
            !.pending = Append(@, update)]
    ELSE [stream EXCEPT
            !.acknowledged = @ \cup {statusUuid},
            !.pending = Tail(@),
            !.terminated = IF ~@ THEN update.terminal ELSE @]

\* What is read back of a record that was written behind a partly
\* written one: nothing that ::protobuf::read can parse.
Garbled == [type |-> "GARBLED", update |-> None, uuid |-> None]

\* ::protobuf::write(fd, record) on the stream's descriptor.  `write` is
\* what the write does: "ok", "fail" (nothing written) or "partial" (an
\* error after part of the record reached the file).
WriteRecord(file, linked, record, write) ==
  IF ~linked THEN file
  ELSE IF write = "ok"
    THEN IF file.torn
           THEN [file EXCEPT !.records = Append(@, Garbled), !.torn = FALSE]
           ELSE [file EXCEPT !.records = Append(@, record)]
  ELSE IF write = "partial" THEN [file EXCEPT !.torn = TRUE]
  ELSE file

\* handle, were it to change the stream whether or not the write succeeds.
Stream_handleFirst(stream, file, update, type, write) ==
  IF stream.checkpointed
    THEN LET record == IF type = "UPDATE" THEN UpdateRecord(update)
                                           ELSE AckRecord(update)
             file_ == WriteRecord(file, stream.linked, record, write)
         IN IF write # "ok"
              THEN [error |-> TRUE, file |-> file_,
                    stream |-> [Stream__handle(stream, update, type)
                                  EXCEPT !.error = Some("write")]]
              ELSE [error |-> FALSE, file |-> file_,
                    stream |-> Stream__handle(stream, update, type)]
    ELSE [error |-> FALSE, file |-> file,
          stream |-> Stream__handle(stream, update, type)]

\* handle, were a failed write to go unnoticed.
Stream_handleUnchecked(stream, file, update, type, write) ==
  IF stream.checkpointed
    THEN LET record == IF type = "UPDATE" THEN UpdateRecord(update)
                                           ELSE AckRecord(update)
         IN [error |-> FALSE,
             file |-> WriteRecord(file, stream.linked, record, write),
             stream |-> Stream__handle(stream, update, type)]
    ELSE [error |-> FALSE, file |-> file,
          stream |-> Stream__handle(stream, update, type)]

\* StatusUpdateStream::handle
Stream_handle(stream, file, update, type, write) ==
  IF stream.checkpointed
    THEN LET record == IF type = "UPDATE" THEN UpdateRecord(update)
                                           ELSE AckRecord(update)
             file_ == WriteRecord(file, stream.linked, record, write)
         IN IF write # "ok"
              THEN [error |-> TRUE, file |-> file_,
                    stream |-> [stream EXCEPT !.error = Some("write")]]
              ELSE [error |-> FALSE, file |-> file_,
                    stream |-> Stream__handle(stream, update, type)]
    ELSE [error |-> FALSE, file |-> file,
          stream |-> Stream__handle(stream, update, type)]

\* update, were it to look for a duplicate among the acknowledged only.
Stream_updateAgain(stream, file, update, write) ==
  IF isSome(stream.error)
    THEN [value |-> "Error: " \o get(stream.error), stream |-> stream, file |-> file]
  ELSE IF ~isSome(update.status_uuid)
    THEN [value |-> "Error: missing status_uuid", stream |-> stream, file |-> file]
  ELSE IF get(update.status_uuid) \in stream.acknowledged
    THEN [value |-> "false", stream |-> stream, file |-> file]
  ELSE LET h == Stream_handle(stream, file, update, "UPDATE", write) IN
       [value |-> IF h.error THEN "Error: " \o get(h.stream.error) ELSE "true",
        stream |-> h.stream, file |-> h.file]

\* StatusUpdateStream::update: value is "true", "false" or the Error.
Stream_update(stream, file, update, write) ==
  IF isSome(stream.error)
    THEN [value |-> "Error: " \o get(stream.error), stream |-> stream, file |-> file]
  ELSE IF ~isSome(update.status_uuid)
    THEN [value |-> "Error: missing status_uuid", stream |-> stream, file |-> file]
  ELSE IF get(update.status_uuid) \in stream.acknowledged
    THEN [value |-> "false", stream |-> stream, file |-> file]
  ELSE IF get(update.status_uuid) \in stream.received
    THEN [value |-> "false", stream |-> stream, file |-> file]
  ELSE LET h == Stream_handle(stream, file, update, "UPDATE", write) IN
       [value |-> IF h.error THEN "Error: " \o get(h.stream.error) ELSE "true",
        stream |-> h.stream, file |-> h.file]

\* acknowledgement, were it to go on after an error.
Stream_acknowledgementRetry(stream, file, statusUuid, write) ==
  LET _update == Stream_next([stream EXCEPT !.error = None]) IN
  IF ~isSome(_update.value)
    THEN [value |-> "Error: unexpected acknowledgement", stream |-> stream, file |-> file]
  ELSE IF statusUuid \in stream.acknowledged
    THEN [value |-> "false", stream |-> stream, file |-> file]
  ELSE IF statusUuid # get(get(_update.value).status_uuid)
    THEN [value |-> "false", stream |-> stream, file |-> file]
  ELSE LET h == Stream_handle(stream, file, get(_update.value), "ACK", write) IN
       [value |-> IF h.error THEN "Error: " \o get(h.stream.error) ELSE "true",
        stream |-> h.stream, file |-> h.file]

\* acknowledgement, were it to take any UUID for the head's.
Stream_acknowledgementAny(stream, file, statusUuid, write) ==
  LET _update == Stream_next(stream) IN
  IF isSome(stream.error)
    THEN [value |-> "Error: " \o get(stream.error), stream |-> stream, file |-> file]
  ELSE IF ~isSome(_update.value)
    THEN [value |-> "Error: unexpected acknowledgement", stream |-> stream, file |-> file]
  ELSE IF statusUuid \in stream.acknowledged
    THEN [value |-> "false", stream |-> stream, file |-> file]
  ELSE LET h == Stream_handle(stream, file, get(_update.value), "ACK", write) IN
       [value |-> IF h.error THEN "Error: " \o get(h.stream.error) ELSE "true",
        stream |-> h.stream, file |-> h.file]

\* acknowledgement, were it to accept a UUID when nothing is pending.
Stream_acknowledgementEmpty(stream, file, statusUuid, write) ==
  LET _update == Stream_next(stream) IN
  IF isSome(stream.error)
    THEN [value |-> "Error: " \o get(stream.error), stream |-> stream, file |-> file]
  ELSE IF ~isSome(_update.value)
    THEN [value |-> "true", file |-> file,
          stream |-> [stream EXCEPT !.acknowledged = @ \cup {statusUuid}]]
  ELSE IF statusUuid \in stream.acknowledged
    THEN [value |-> "false", stream |-> stream, file |-> file]
  ELSE IF statusUuid # get(get(_update.value).status_uuid)
    THEN [value |-> "false", stream |-> stream, file |-> file]
  ELSE LET h == Stream_handle(stream, file, get(_update.value), "ACK", write) IN
       [value |-> IF h.error THEN "Error: " \o get(h.stream.error) ELSE "true",
        stream |-> h.stream, file |-> h.file]

\* StatusUpdateStream::acknowledgement
Stream_acknowledgement(stream, file, statusUuid, write) ==
  LET _update == Stream_next(stream) IN
  IF isSome(stream.error)
    THEN [value |-> "Error: " \o get(stream.error), stream |-> stream, file |-> file]
  ELSE IF ~isSome(_update.value)
    THEN [value |-> "Error: unexpected acknowledgement", stream |-> stream, file |-> file]
  ELSE IF statusUuid \in stream.acknowledged
    THEN [value |-> "false", stream |-> stream, file |-> file]
  ELSE IF statusUuid # get(get(_update.value).status_uuid)
    THEN [value |-> "false", stream |-> stream, file |-> file]
  ELSE LET h == Stream_handle(stream, file, get(_update.value), "ACK", write) IN
       [value |-> IF h.error THEN "Error: " \o get(h.stream.error) ELSE "true",
        stream |-> h.stream, file |-> h.file]

\* create, were it to open a file that exists.
Stream_createOver(w, streamId, frameworkId, checkpoint, io) ==
  IF ~checkpoint
    THEN [error |-> FALSE, world |-> w,
          stream |-> [NewStream(FALSE) EXCEPT !.frameworkId = frameworkId]]
  ELSE IF io = "mkdir"
    THEN [error |-> TRUE, world |-> w, stream |-> NewStream(TRUE)]
  ELSE IF io = "open"
    THEN [error |-> TRUE, stream |-> NewStream(TRUE),
          world |-> [w EXCEPT !.dirs = @ \cup {streamId}]]
  ELSE [error |-> FALSE,
        stream |-> [NewStream(TRUE) EXCEPT !.frameworkId = frameworkId],
        world |-> [w EXCEPT !.dirs = @ \cup {streamId},
                            !.files[streamId].exists = TRUE]]

\* StatusUpdateStream::create.  `io` is what the file system does: "ok",
\* "mkdir" (os::mkdir fails) or "open" (os::open fails).
Stream_create(w, streamId, frameworkId, checkpoint, io) ==
  IF ~checkpoint
    THEN [error |-> FALSE, world |-> w,
          stream |-> [NewStream(FALSE) EXCEPT !.frameworkId = frameworkId]]
  ELSE IF w.files[streamId].exists
    THEN [error |-> TRUE, world |-> w, stream |-> NewStream(TRUE)]
  ELSE IF io = "mkdir"
    THEN [error |-> TRUE, world |-> w, stream |-> NewStream(TRUE)]
  ELSE IF io = "open"
    THEN [error |-> TRUE, stream |-> NewStream(TRUE),
          world |-> [w EXCEPT !.dirs = @ \cup {streamId}]]
  ELSE [error |-> FALSE,
        stream |-> [NewStream(TRUE) EXCEPT !.frameworkId = frameworkId],
        world |-> [w EXCEPT !.dirs = @ \cup {streamId},
                            !.files[streamId] = EmptyFile]]

\* The read loop, were it to pass over an ACK that finds nothing pending.
RECURSIVE ReplayTolerant(_, _, _, _)
ReplayTolerant(stream, updates, records, i) ==
  IF i > Len(records)
    THEN [read |-> "none", stream |-> stream, updates |-> updates, position |-> i - 1]
  ELSE IF records[i].type = "ACK"
    THEN LET next == Stream_next(stream) IN
         IF ~isSome(next.value)
           THEN ReplayTolerant(stream, updates, records, i + 1)
           ELSE ReplayTolerant(Stream__handle(stream, get(next.value), "ACK"),
                               updates, records, i + 1)
  ELSE IF records[i].type = "UPDATE"
    THEN ReplayTolerant(Stream__handle(stream, get(records[i].update), "UPDATE"),
                        Append(updates, get(records[i].update)), records, i + 1)
  ELSE [read |-> "error", stream |-> stream, updates |-> updates, position |-> i - 1]

\* The read loop of StatusUpdateStream::recover over the records from
\* position `i` on: ::protobuf::read(fd, true, true) yields the next
\* complete record, None at the end of the file or at a partly written
\* record, and an Error at a record it cannot parse.  `read` is "none",
\* "error", or "ack" when an ACK finds nothing pending.
RECURSIVE Replay(_, _, _, _)
Replay(stream, updates, records, i) ==
  IF i > Len(records)
    THEN [read |-> "none", stream |-> stream, updates |-> updates, position |-> i - 1]
  ELSE IF records[i].type = "ACK"
    THEN LET next == Stream_next(stream) IN
         IF ~isSome(next.value)
           THEN [read |-> "ack", stream |-> stream, updates |-> updates,
                 position |-> i]
           ELSE Replay(Stream__handle(stream, get(next.value), "ACK"),
                       updates, records, i + 1)
  ELSE IF records[i].type = "UPDATE"
    THEN Replay(Stream__handle(stream, get(records[i].update), "UPDATE"),
                Append(updates, get(records[i].update)), records, i + 1)
  ELSE [read |-> "error", stream |-> stream, updates |-> updates, position |-> i - 1]

\* State, were it never to say that the stream has terminated.
StreamStateRunning(updates, error, terminated) ==
  [updates |-> updates, error |-> error, terminated |-> FALSE]

\* StatusUpdateStream::State
StreamState(updates, error, terminated) ==
  [updates |-> updates, error |-> error, terminated |-> terminated]

\* StatusUpdateStream::recover from the end of the read loop on, were it
\* to leave the file as long as it is.
Stream_recoveredWhole(w, streamId, strict, io, r) ==
  LET failed == [kind |-> "Error", world |-> w, stream |-> NewStream(TRUE),
                 state |-> StreamState(<<>>, FALSE, FALSE)]
  IN IF r.read = "ack" THEN failed
     ELSE IF io \in {"lseek", "truncate"} THEN failed
     ELSE IF r.read = "error" /\ strict THEN failed
     ELSE IF r.updates = <<>>
       THEN IF io = "rm" THEN failed
            ELSE [failed EXCEPT
                    !.kind = "None",
                    !.world = [w EXCEPT
                       !.files[streamId] = NoFile,
                       !.streams = [k \in DOMAIN @ |->
                          IF k = streamId /\ @[k].checkpointed
                            THEN [@[k] EXCEPT !.linked = FALSE]
                            ELSE @[k]]]]
     ELSE [kind |-> "Some", world |-> w, stream |-> r.stream,
           state |-> StreamState(r.updates, r.read = "error",
                                 r.stream.terminated)]

\* StatusUpdateStream::recover from the end of the read loop on, were it
\* to return None for a log without updates and leave the file.
Stream_recoveredLeft(w, streamId, strict, io, r) ==
  LET failed == [kind |-> "Error", world |-> w, stream |-> NewStream(TRUE),
                 state |-> StreamState(<<>>, FALSE, FALSE)]
      w1 == [w EXCEPT !.files[streamId].records = SubSeq(@, 1, r.position),
                      !.files[streamId].torn = FALSE]
  IN IF r.read = "ack" THEN failed
     ELSE IF io \in {"lseek", "truncate"} THEN failed
     ELSE IF r.read = "error" /\ strict THEN [failed EXCEPT !.world = w1]
     ELSE IF r.updates = <<>>
       THEN [failed EXCEPT !.kind = "None", !.world = w1]
     ELSE [kind |-> "Some", world |-> w1, stream |-> r.stream,
           state |-> StreamState(r.updates, r.read = "error",
                                 r.stream.terminated)]

\* StatusUpdateStream::recover from the end of the read loop on, `r` being
\* what the loop left.
Stream_recovered(w, streamId, strict, io, r) ==
  LET failed == [kind |-> "Error", world |-> w, stream |-> NewStream(TRUE),
                 state |-> StreamState(<<>>, FALSE, FALSE)]
      w1 == [w EXCEPT !.files[streamId].records = SubSeq(@, 1, r.position),
                      !.files[streamId].torn = FALSE]
  IN IF r.read = "ack" THEN failed
     ELSE IF io \in {"lseek", "truncate"} THEN failed
     ELSE IF r.read = "error" /\ strict THEN [failed EXCEPT !.world = w1]
     ELSE IF r.updates = <<>>
       THEN IF io = "rm" THEN [failed EXCEPT !.world = w1]
            ELSE [failed EXCEPT
                    !.kind = "None",
                    !.world = [w EXCEPT
                       !.files[streamId] = NoFile,
                       !.streams = [k \in DOMAIN @ |->
                          IF k = streamId /\ @[k].checkpointed
                            THEN [@[k] EXCEPT !.linked = FALSE]
                            ELSE @[k]]]]
     ELSE [kind |-> "Some", world |-> w1, stream |-> r.stream,
           state |-> StreamState(r.updates, r.read = "error",
                                 r.stream.terminated)]

\* StatusUpdateStream::recover.  `io` names the call that fails, if any:
\* "open", "lseek", "truncate", "rm", or "ok".  kind is "Error", "None"
\* or "Some".
Stream_recover(w, streamId, strict, io) ==
  IF streamId \in w.dirs /\ ~w.files[streamId].exists
    THEN [kind |-> "None", world |-> w, stream |-> NewStream(TRUE),
          state |-> StreamState(<<>>, FALSE, FALSE)]
  ELSE IF ~w.files[streamId].exists \/ io = "open"
    THEN [kind |-> "Error", world |-> w, stream |-> NewStream(TRUE),
          state |-> StreamState(<<>>, FALSE, FALSE)]
  ELSE Stream_recovered(w, streamId, strict, io,
                        Replay(NewStream(TRUE), <<>>, w.files[streamId].records, 1))

\* --------------------------------------------- StatusUpdateManagerProcess
\* A hashmap without / with a key.
Erase(map, key) == [k \in DOMAIN map \ {key} |-> map[k]]
Put(map, key, value) == [k \in DOMAIN map \cup {key} |-> IF k = key THEN value ELSE map[k]]

\* CHECK(condition): the process aborts when `check` does not hold.
Abort(w, check) == [w EXCEPT !.aborted = TRUE, !.check = check]

\* StatusUpdateManagerProcess::forward: the callback, then `delay`.  The
\* Timeout it returns is `duration` from now.
forward(w, streamId, update, duration) ==
  IF w.paused THEN Abort(w, "CHECK(!paused)")
  ELSE [w EXCEPT
          !.forwarded = Append(@, [id |-> streamId, update |-> update,
                                   duration |-> duration]),
          !.timers = @ (+) SetToBag({[id |-> streamId, duration |-> duration,
                                      remaining |-> duration]})]

\* stream->timeout = forward(streamId, update, duration)
forwardAndSetTimeout(w, streamId, update, duration) ==
  LET w1 == forward(w, streamId, update, duration) IN
  IF w1.aborted THEN w1
  ELSE [w1 EXCEPT !.streams[streamId].timeout = Some(duration)]

\* StatusUpdateManagerProcess::createStatusUpdateStream
createStatusUpdateStream(w, streamId, frameworkId, checkpoint, io) ==
  LET stream == Stream_create(w, streamId, frameworkId, checkpoint, io) IN
  IF stream.error THEN [error |-> TRUE, world |-> stream.world]
  ELSE [error |-> FALSE,
        world |-> [stream.world EXCEPT
          !.streams = Put(@, streamId, stream.stream),
          !.frameworkStreams =
             IF isSome(frameworkId)
               THEN Put(@, get(frameworkId),
                        (IF get(frameworkId) \in DOMAIN @
                           THEN @[get(frameworkId)] ELSE {}) \cup {streamId})
               ELSE @]]

\* cleanupStatusUpdateStream, were it to leave frameworkStreams alone.
cleanupStreamOnly(w, streamId) ==
  IF w.aborted THEN w
  ELSE IF streamId \notin DOMAIN w.streams
    THEN Abort(w, "CHECK(streams.contains(streamId))")
  ELSE [w EXCEPT !.streams = Erase(@, streamId)]

\* StatusUpdateManagerProcess::cleanupStatusUpdateStream
cleanupStatusUpdateStream(w, streamId) ==
  IF w.aborted THEN w
  ELSE IF streamId \notin DOMAIN w.streams
    THEN Abort(w, "CHECK(streams.contains(streamId))")
  ELSE LET stream == w.streams[streamId] IN
    IF isSome(stream.frameworkId)
      THEN LET frameworkId == get(stream.frameworkId) IN
        IF frameworkId \notin DOMAIN w.frameworkStreams
          THEN Abort(w, "CHECK(frameworkStreams.contains(frameworkId))")
        ELSE LET erased == w.frameworkStreams[frameworkId] \ {streamId} IN
          [w EXCEPT
             !.frameworkStreams = IF erased = {} THEN Erase(@, frameworkId)
                                  ELSE Put(@, frameworkId, erased),
             !.streams = Erase(@, streamId)]
      ELSE [w EXCEPT !.streams = Erase(@, streamId)]

\* update from the stream lookup on, were it to forward the head of the
\* queue after every update it accepts.
updateStreamAlways(w, update, streamId, checkpoint, write) ==
  LET stream == w.streams[streamId] IN
  IF stream.checkpointed # checkpoint
    THEN [value |-> "Failure: mismatched checkpoint", world |-> w]
  ELSE IF isSome(update.framework_id) # isSome(stream.frameworkId)
    THEN [value |-> "Failure: mismatched framework", world |-> w]
  ELSE IF isSome(update.framework_id) /\ update.framework_id # stream.frameworkId
    THEN [value |-> "Failure: mismatched framework", world |-> w]
  ELSE
    LET r == Stream_update(stream, w.files[streamId], update, write)
        w1 == [w EXCEPT !.streams[streamId] = r.stream,
                        !.files[streamId] = r.file]
    IN IF r.value \notin {"true", "false"}
         THEN [value |-> "Failure: " \o r.value, world |-> w1]
       ELSE IF r.value = "false"
         THEN [value |-> "Nothing", world |-> w1]
       ELSE IF ~w1.paused
         THEN IF Stream_next(r.stream).error
                THEN [value |-> "Failure: next", world |-> w1]
              ELSE [value |-> "Nothing",
                    world |-> forwardAndSetTimeout(
                                w1, streamId, get(Stream_next(r.stream).value),
                                STATUS_UPDATE_RETRY_INTERVAL_MIN)]
       ELSE [value |-> "Nothing", world |-> w1]

\* StatusUpdateManagerProcess::update, from the stream lookup on: the
\* stream is registered.
updateStream(w, update, streamId, checkpoint, write) ==
  LET stream == w.streams[streamId] IN
  IF stream.checkpointed # checkpoint
    THEN [value |-> "Failure: mismatched checkpoint", world |-> w]
  ELSE IF isSome(update.framework_id) # isSome(stream.frameworkId)
    THEN [value |-> "Failure: mismatched framework", world |-> w]
  ELSE IF isSome(update.framework_id) /\ update.framework_id # stream.frameworkId
    THEN [value |-> "Failure: mismatched framework", world |-> w]
  ELSE
    LET r == Stream_update(stream, w.files[streamId], update, write)
        w1 == [w EXCEPT !.streams[streamId] = r.stream,
                        !.files[streamId] = r.file]
    IN IF r.value \notin {"true", "false"}
         THEN [value |-> "Failure: " \o r.value, world |-> w1]
       ELSE IF r.value = "false"
         THEN [value |-> "Nothing", world |-> w1]
       ELSE IF ~w1.paused /\ Len(r.stream.pending) = 1
         THEN IF isSome(r.stream.timeout)
                THEN [value |-> "aborted",
                      world |-> Abort(w1, "CHECK_NONE(stream->timeout)")]
              ELSE IF Stream_next(r.stream).error
                THEN [value |-> "Failure: next", world |-> w1]
              ELSE [value |-> "Nothing",
                    world |-> forwardAndSetTimeout(
                                w1, streamId, get(Stream_next(r.stream).value),
                                STATUS_UPDATE_RETRY_INTERVAL_MIN)]
       ELSE [value |-> "Nothing", world |-> w1]

\* StatusUpdateManagerProcess::update
update(w, update_, streamId, checkpoint, io, write) ==
  IF streamId \notin DOMAIN w.streams
    THEN LET create == createStatusUpdateStream(
                         w, streamId, update_.framework_id, checkpoint, io)
         IN IF create.error
              THEN [value |-> "Failure: create", world |-> create.world]
              ELSE updateStream(create.world, update_, streamId, checkpoint, write)
    ELSE updateStream(w, update_, streamId, checkpoint, write)

\* acknowledgement, were it to leave the stream's timeout as it is.
acknowledgementArmed(w, streamId, uuid, write) ==
  IF streamId \notin DOMAIN w.streams
    THEN [value |-> "Failure: cannot find the stream", world |-> w]
  ELSE
    LET r == Stream_acknowledgement(w.streams[streamId], w.files[streamId],
                                    uuid, write)
        w1 == [w EXCEPT !.streams[streamId] = r.stream,
                        !.files[streamId] = r.file]
    IN IF r.value \notin {"true", "false"}
         THEN [value |-> "Failure: " \o r.value, world |-> w1]
       ELSE IF r.value = "false"
         THEN [value |-> "Failure: duplicate acknowledgement", world |-> w1]
       ELSE
         LET next == Stream_next(w1.streams[streamId])
             terminated == w1.streams[streamId].terminated
         IN IF next.error THEN [value |-> "Failure: next", world |-> w1]
            ELSE IF terminated
              THEN [value |-> "false",
                    world |-> cleanupStatusUpdateStream(w1, streamId)]
            ELSE IF ~w1.paused /\ isSome(next.value)
              THEN [value |-> "true",
                    world |-> forwardAndSetTimeout(
                                w1, streamId, get(next.value),
                                STATUS_UPDATE_RETRY_INTERVAL_MIN)]
            ELSE [value |-> "true", world |-> w1]

\* acknowledgement, were it to leave the next update to the next retry.
acknowledgementIdle(w, streamId, uuid, write) ==
  IF streamId \notin DOMAIN w.streams
    THEN [value |-> "Failure: cannot find the stream", world |-> w]
  ELSE
    LET r == Stream_acknowledgement(w.streams[streamId], w.files[streamId],
                                    uuid, write)
        w1 == [w EXCEPT !.streams[streamId] = r.stream,
                        !.files[streamId] = r.file]
    IN IF r.value \notin {"true", "false"}
         THEN [value |-> "Failure: " \o r.value, world |-> w1]
       ELSE IF r.value = "false"
         THEN [value |-> "Failure: duplicate acknowledgement", world |-> w1]
       ELSE
         LET w2 == [w1 EXCEPT !.streams[streamId].timeout = None]
             next == Stream_next(w2.streams[streamId])
             terminated == w2.streams[streamId].terminated
         IN IF next.error THEN [value |-> "Failure: next", world |-> w2]
            ELSE IF terminated
              THEN [value |-> "false",
                    world |-> cleanupStatusUpdateStream(w2, streamId)]
            ELSE [value |-> "true", world |-> w2]

\* acknowledgement, were it to leave a terminated stream registered.
acknowledgementTerminated(w, streamId, uuid, write) ==
  IF streamId \notin DOMAIN w.streams
    THEN [value |-> "Failure: cannot find the stream", world |-> w]
  ELSE
    LET r == Stream_acknowledgement(w.streams[streamId], w.files[streamId],
                                    uuid, write)
        w1 == [w EXCEPT !.streams[streamId] = r.stream,
                        !.files[streamId] = r.file]
    IN IF r.value \notin {"true", "false"}
         THEN [value |-> "Failure: " \o r.value, world |-> w1]
       ELSE IF r.value = "false"
         THEN [value |-> "Failure: duplicate acknowledgement", world |-> w1]
       ELSE
         LET w2 == [w1 EXCEPT !.streams[streamId].timeout = None]
             next == Stream_next(w2.streams[streamId])
             terminated == w2.streams[streamId].terminated
         IN IF next.error THEN [value |-> "Failure: next", world |-> w2]
            ELSE IF terminated THEN [value |-> "false", world |-> w2]
            ELSE IF ~w2.paused /\ isSome(next.value)
              THEN [value |-> "true",
                    world |-> forwardAndSetTimeout(
                                w2, streamId, get(next.value),
                                STATUS_UPDATE_RETRY_INTERVAL_MIN)]
            ELSE [value |-> "true", world |-> w2]

\* StatusUpdateManagerProcess::acknowledgement
acknowledgement(w, streamId, uuid, write) ==
  IF streamId \notin DOMAIN w.streams
    THEN [value |-> "Failure: cannot find the stream", world |-> w]
  ELSE
    LET r == Stream_acknowledgement(w.streams[streamId], w.files[streamId],
                                    uuid, write)
        w1 == [w EXCEPT !.streams[streamId] = r.stream,
                        !.files[streamId] = r.file]
    IN IF r.value \notin {"true", "false"}
         THEN [value |-> "Failure: " \o r.value, world |-> w1]
       ELSE IF r.value = "false"
         THEN [value |-> "Failure: duplicate acknowledgement", world |-> w1]
       ELSE
         LET w2 == [w1 EXCEPT !.streams[streamId].timeout = None]
             next == Stream_next(w2.streams[streamId])
             terminated == w2.streams[streamId].terminated
         IN IF next.error THEN [value |-> "Failure: next", world |-> w2]
            ELSE IF terminated
              THEN [value |-> "false",
                    world |-> cleanupStatusUpdateStream(w2, streamId)]
            ELSE IF ~w2.paused /\ isSome(next.value)
              THEN [value |-> "true",
                    world |-> forwardAndSetTimeout(
                                w2, streamId, get(next.value),
                                STATUS_UPDATE_RETRY_INTERVAL_MIN)]
            ELSE [value |-> "true", world |-> w2]

\* StatusUpdateManagerProcess::pause
pause(w) == [w EXCEPT !.paused = TRUE]

\* resume, were its loop to forward nothing.
resumeStreamsNone(w, ids) == w

\* resume, were its loop to stop after the first stream that has an
\* update to forward.
RECURSIVE resumeStreamsFirst(_, _)
resumeStreamsFirst(w, ids) ==
  IF ids = <<>> \/ w.aborted THEN w
  ELSE LET streamId == Head(ids)
           next == Stream_next(w.streams[streamId])
       IN IF isSome(next.value)
            THEN forwardAndSetTimeout(w, streamId, get(next.value),
                                      STATUS_UPDATE_RETRY_INTERVAL_MIN)
            ELSE resumeStreamsFirst(w, Tail(ids))

\* StatusUpdateManagerProcess::resume: the loop over `streams`, in the
\* order `ids` in which the hashmap happens to hold them.
RECURSIVE resumeStreams(_, _)
resumeStreams(w, ids) ==
  IF ids = <<>> \/ w.aborted THEN w
  ELSE LET streamId == Head(ids)
           next == Stream_next(w.streams[streamId])
       IN resumeStreams(
            IF isSome(next.value)
              THEN forwardAndSetTimeout(w, streamId, get(next.value),
                                        STATUS_UPDATE_RETRY_INTERVAL_MIN)
              ELSE w,
            Tail(ids))

resume(w, ids) == resumeStreams([w EXCEPT !.paused = FALSE], ids)

\* timeout, were it to send the update again whether or not the
\* stream's timeout has expired.
timeoutEager(w, streamId, duration) ==
  IF w.paused \/ streamId \notin DOMAIN w.streams THEN w
  ELSE LET stream == w.streams[streamId] IN
    IF stream.pending = <<>> THEN w
    ELSE IF ~isSome(stream.timeout)
      THEN Abort(w, "CHECK_SOME(stream->timeout)")
    ELSE forwardAndSetTimeout(
           w, streamId, Head(stream.pending),
           Min(duration * 2, STATUS_UPDATE_RETRY_INTERVAL_MAX))

\* timeout, were it never to send an update again.
timeoutNever(w, streamId, duration) == w

\* timeout, were it to run while the manager is paused.
timeoutPaused(w, streamId, duration) ==
  IF streamId \notin DOMAIN w.streams THEN w
  ELSE LET stream == w.streams[streamId] IN
    IF stream.pending = <<>> THEN w
    ELSE IF ~isSome(stream.timeout)
      THEN Abort(w, "CHECK_SOME(stream->timeout)")
    ELSE IF get(stream.timeout) = 0
      THEN forwardAndSetTimeout(
             w, streamId, Head(stream.pending),
             Min(duration * 2, STATUS_UPDATE_RETRY_INTERVAL_MAX))
    ELSE w

\* StatusUpdateManagerProcess::timeout, the delayed dispatch `timer`.
timeout(w, streamId, duration) ==
  IF w.paused \/ streamId \notin DOMAIN w.streams THEN w
  ELSE LET stream == w.streams[streamId] IN
    IF stream.pending = <<>> THEN w
    ELSE IF ~isSome(stream.timeout)
      THEN Abort(w, "CHECK_SOME(stream->timeout)")
    ELSE IF get(stream.timeout) = 0
      THEN forwardAndSetTimeout(
             w, streamId, Head(stream.pending),
             Min(duration * 2, STATUS_UPDATE_RETRY_INTERVAL_MAX))
    ELSE w

\* The loop of cleanup, were it to stop after one stream.
cleanupStreamsFirst(w, ids) ==
  IF ids = {} \/ w.aborted THEN w
  ELSE cleanupStatusUpdateStream(w, CHOOSE i \in ids : \A j \in ids : i <= j)

\* StatusUpdateManagerProcess::cleanup.  The order of the loop over the
\* hashset does not show: each stream is erased, or the process aborts.
RECURSIVE cleanupStreams(_, _)
cleanupStreams(w, ids) ==
  IF ids = {} \/ w.aborted THEN w
  ELSE LET streamId == CHOOSE i \in ids : \A j \in ids : i <= j IN
       cleanupStreams(cleanupStatusUpdateStream(w, streamId), ids \ {streamId})

cleanup(w, frameworkId) ==
  IF frameworkId \in DOMAIN w.frameworkStreams
    THEN cleanupStreams(w, w.frameworkStreams[frameworkId])
    ELSE w

\* recoverStatusUpdateStream, were it to register the recovered stream
\* without forwarding the head of its queue.
recoveredStatusUpdateStreamOnly(streamId, r) ==
  IF r.kind # "Some" \/ r.stream.terminated
    THEN [kind |-> r.kind, world |-> r.world, state |-> r.state]
  ELSE
    LET w2 == IF isSome(r.stream.frameworkId)
                THEN [r.world EXCEPT !.frameworkStreams =
                        Put(@, get(r.stream.frameworkId),
                            (IF get(r.stream.frameworkId) \in DOMAIN @
                               THEN @[get(r.stream.frameworkId)] ELSE {})
                            \cup {streamId})]
                ELSE r.world
    IN [kind |-> "Some", state |-> r.state,
        world |-> [w2 EXCEPT !.streams = Put(@, streamId, r.stream)]]

\* StatusUpdateManagerProcess::recoverStatusUpdateStream from the call of
\* StatusUpdateStream::recover on, `r` being what it returned.
recoveredStatusUpdateStream(streamId, r) ==
  IF r.kind # "Some" \/ r.stream.terminated
    THEN [kind |-> r.kind, world |-> r.world, state |-> r.state]
  ELSE
    LET w2 == IF isSome(r.stream.frameworkId)
                THEN [r.world EXCEPT !.frameworkStreams =
                        Put(@, get(r.stream.frameworkId),
                            (IF get(r.stream.frameworkId) \in DOMAIN @
                               THEN @[get(r.stream.frameworkId)] ELSE {})
                            \cup {streamId})]
                ELSE r.world
        next == Stream_next(r.stream)
    IN IF next.error THEN [kind |-> "Error", world |-> w2, state |-> r.state]
       ELSE IF ~w2.paused /\ isSome(next.value)
         THEN [kind |-> "Some", state |-> r.state,
               world |-> [forward(w2, streamId, get(next.value),
                                  STATUS_UPDATE_RETRY_INTERVAL_MIN)
                          EXCEPT !.streams =
                            Put(@, streamId,
                                [r.stream EXCEPT !.timeout =
                                   Some(STATUS_UPDATE_RETRY_INTERVAL_MIN)])]]
       ELSE [kind |-> "Some", state |-> r.state,
             world |-> [w2 EXCEPT !.streams = Put(@, streamId, r.stream)]]

\* StatusUpdateManagerProcess::recoverStatusUpdateStream
recoverStatusUpdateStream(w, streamId, strict, io) ==
  recoveredStatusUpdateStream(streamId, Stream_recover(w, streamId, strict, io))

\* StatusUpdateManagerProcess::State
EmptyState == [streams |-> <<>>, errors |-> 0]

\* The teardown of a strict recover: every stream is cleaned up, and the
\* two CHECKs.
teardown(w) ==
  IF w.aborted THEN w
  ELSE IF DOMAIN w.streams # {} THEN Abort(w, "CHECK(streams.empty())")
  ELSE IF DOMAIN w.frameworkStreams # {}
    THEN Abort(w, "CHECK(frameworkStreams.empty())")
  ELSE w

\* The loop body of recover, were a strict failure to leave the streams
\* registered.
recoveredKept(state, streamId, strict, r) ==
  IF r.kind = "Error"
    THEN IF strict
           THEN [value |-> "Failure: recover", state |-> EmptyState,
                 world |-> r.world]
           ELSE [value |-> "State", world |-> r.world,
                 state |-> [state EXCEPT !.errors = @ + 1]]
  ELSE IF r.kind = "None"
    THEN [value |-> "State", world |-> r.world,
          state |-> [state EXCEPT !.streams = Put(@, streamId, None)]]
  ELSE [value |-> "State", world |-> r.world,
        state |-> [state EXCEPT
           !.streams = Put(@, streamId,
                           Some([updates |-> r.state.updates,
                                 terminated |-> r.state.terminated])),
           !.errors = IF r.state.error THEN @ + 1 ELSE @]]

\* What recover makes of the result `r` for one stream id: "Failure"
\* ends the loop.
recovered(state, streamId, strict, r) ==
  IF r.kind = "Error"
    THEN IF strict
           THEN [value |-> "Failure: recover", state |-> EmptyState,
                 world |-> teardown(cleanupStreams(r.world, DOMAIN r.world.streams))]
           ELSE [value |-> "State", world |-> r.world,
                 state |-> [state EXCEPT !.errors = @ + 1]]
  ELSE IF r.kind = "None"
    THEN [value |-> "State", world |-> r.world,
          state |-> [state EXCEPT !.streams = Put(@, streamId, None)]]
  ELSE [value |-> "State", world |-> r.world,
        state |-> [state EXCEPT
           !.streams = Put(@, streamId,
                           Some([updates |-> r.state.updates,
                                 terminated |-> r.state.terminated])),
           !.errors = IF r.state.error THEN @ + 1 ELSE @]]

\* StatusUpdateManagerProcess::recover: the loop over streamIds from
\* position `i` on, `done` being what the ids before it left.  `io` =
\* <<j, call>> makes `call` fail for the j-th id.
RECURSIVE recoverLoop(_, _, _, _, _)
recoverLoop(done, streamIds, strict, io, i) ==
  IF i > Len(streamIds) \/ done.world.aborted \/ done.value # "State" THEN done
  ELSE recoverLoop(
         recovered(done.state, streamIds[i], strict,
                   recoverStatusUpdateStream(
                     done.world, streamIds[i], strict,
                     IF io[1] = i THEN io[2] ELSE "ok")),
         streamIds, strict, io, i + 1)

recover(w, streamIds, strict, io) ==
  recoverLoop([value |-> "State", state |-> EmptyState, world |-> w],
              streamIds, strict, io, 1)

\* ------------------------------------------------------------------ steps
\* The status UUIDs of a queue of updates.
Uuids(pending) == {get(pending[i].status_uuid) : i \in 1..Len(pending)}

\* The history of retry intervals: `of` maps each stream whose timeout is
\* set to the duration of the forward that set it.  A behaviour keeps the
\* history or not from its first state on (`kept`).
NoIntervals(kept) == [kept |-> kept, of |-> <<>>]

\* The duration of the last forward of stream `streamId` among `calls`,
\* `before` if there is none.
RECURSIVE LastDuration(_, _, _)
LastDuration(calls, streamId, before) ==
  IF calls = <<>> THEN before
  ELSE LastDuration(Tail(calls), streamId,
                    IF Head(calls).id = streamId THEN Head(calls).duration
                    ELSE before)

\* The history after an operation that left the world `w`.
Intervals(w) ==
  IF ~intervals.kept THEN intervals
  ELSE [intervals EXCEPT !.of =
          [id \in {i \in DOMAIN w.streams : isSome(w.streams[i].timeout)} |->
             LastDuration(w.forwarded, id,
                          IF id \in DOMAIN intervals.of THEN intervals.of[id]
                          ELSE 0)]]

\* The manager after construction, `ids` being the stream ids that its
\* callers use.
Constructed(ids) ==
  /\ streams = <<>>
  /\ frameworkStreams = <<>>
  /\ paused = FALSE
  /\ files = [s \in ids |-> NoFile]
  /\ dirs = {}
  /\ timers = EmptyBag
  /\ aborted = FALSE
  /\ result = [value |-> "void", state |-> EmptyState]
  /\ forwarded = <<>>

\* The history of delivery: for each registered stream, `accepted` is
\* the sequence of the updates that joined its queue and `sent` the
\* sequence of the distinct updates that were forwarded for it, and
\* `held` the status UUIDs of the updates it accepted while the manager
\* was paused.  A behaviour keeps the history or not from its first state
\* on (`kept`).
NoDelivery(kept) ==
  [kept |-> kept, accepted |-> <<>>, sent |-> <<>>, held |-> <<>>]

\* `before` and the updates among `calls` for stream `streamId` that are
\* not in it yet.
RECURSIVE Distinct(_, _, _)
Distinct(before, calls, streamId) ==
  IF calls = <<>> THEN before
  ELSE Distinct(
         IF /\ Head(calls).id = streamId
            /\ \A i \in 1..Len(before) : before[i] # Head(calls).update
           THEN Append(before, Head(calls).update) ELSE before,
         Tail(calls), streamId)

\* The history after an operation that left the world `w`.
Delivery(w) ==
  IF ~delivery.kept THEN delivery
  ELSE LET was(id) == id \in DOMAIN streams /\ id \in DOMAIN delivery.accepted
           joined(id) ==
             SelectSeq(w.streams[id].pending,
                       LAMBDA u : get(u.status_uuid) \notin
                                    (IF was(id) THEN streams[id].received ELSE {}))
       IN [delivery EXCEPT
             !.accepted = [id \in DOMAIN w.streams |->
                (IF was(id) THEN delivery.accepted[id] ELSE <<>>) \o joined(id)],
             !.sent = [id \in DOMAIN w.streams |->
                Distinct(IF was(id) THEN delivery.sent[id] ELSE <<>>,
                         w.forwarded, id)],
             !.held = [id \in DOMAIN w.streams |->
                (IF was(id) THEN delivery.held[id] ELSE {}) \cup
                (IF paused THEN Uuids(joined(id)) ELSE {})]]

Init ==
  /\ Constructed(StreamIds)
  /\ intervals = NoIntervals(FALSE)
  /\ delivery = NoDelivery(FALSE)

\* An operation ran from the current state and left the world `w`,
\* returning `value` (and `state`, for recover); "void" for a method
\* that returns nothing.
Returns(w, value, state) ==
  /\ ~aborted
  /\ BagCardinality(w.timers) <= MaxTimers
  /\ IF w.aborted
       THEN /\ aborted' = TRUE
            /\ result' = [value |-> w.check, state |-> EmptyState]
            /\ forwarded' = <<>>
            /\ UNCHANGED <<streams, frameworkStreams, paused, files, dirs, timers,
                           intervals, delivery>>
       ELSE /\ aborted' = FALSE
            /\ result' = [value |-> value, state |-> state]
            /\ forwarded' = w.forwarded
            /\ streams' = w.streams
            /\ frameworkStreams' = w.frameworkStreams
            /\ paused' = w.paused
            /\ files' = w.files
            /\ dirs' = w.dirs
            /\ timers' = w.timers
            /\ intervals' = Intervals(w)
            /\ delivery' = Delivery(w)

IoOutcomes == {"ok", "mkdir", "open"}
WriteOutcomes == {"ok", "fail", "partial"}
RecoverIo == {"ok", "open", "lseek", "truncate", "rm"}

\* `io` and `write` are drawn only where the call reaches the file system.
Update(u, streamId, checkpoint, io, write) ==
  /\ io # "ok" =>
       streamId \notin DOMAIN streams /\ checkpoint /\ ~files[streamId].exists
  /\ write # "ok" =>
       /\ checkpoint /\ isSome(u.status_uuid)
       /\ streamId \in DOMAIN streams =>
            /\ streams[streamId].checkpointed
            /\ ~isSome(streams[streamId].error)
            /\ get(u.status_uuid) \notin streams[streamId].received
  /\ LET r == update(World, u, streamId, checkpoint, io, write) IN
     Returns(r.world, r.value, EmptyState)

Acknowledgement(streamId, uuid, write) ==
  /\ write # "ok" =>
       /\ streamId \in DOMAIN streams
       /\ streams[streamId].checkpointed
       /\ ~isSome(streams[streamId].error)
       /\ streams[streamId].pending # <<>>
  /\ LET r == acknowledgement(World, streamId, uuid, write) IN
     Returns(r.world, r.value, EmptyState)

Orders(S) == {o \in [1..Cardinality(S) -> S] : \A x \in S : \E i \in DOMAIN o : o[i] = x}

Pause ==
  /\ ~aborted
  /\ Returns(pause(World), "void", EmptyState)

Resume ==
  \E ids \in Orders(DOMAIN streams) :
    Returns(resume(World, ids), "void", EmptyState)

Cleanup(frameworkId) ==
  /\ ~aborted
  /\ Returns(cleanup(World, frameworkId), "void", EmptyState)

Recovered(r) == Returns(r.world, r.value, r.state)

Recover(streamIds, strict, io) ==
  /\ ~aborted
  /\ Recovered(recover(World, streamIds, strict, io))

\* A delayed dispatch whose delay has passed runs `timeout`.
Timeout ==
  \E timer \in BagToSet(timers) :
    /\ timer.remaining = 0
    /\ Returns(timeout([World EXCEPT !.timers = @ (-) SetToBag({timer})],
                       timer.id, timer.duration),
               "void", EmptyState)

\* Time passes: every deadline comes `delta` closer.
Later(remaining, delta) == IF remaining > delta THEN remaining - delta ELSE 0

RECURSIVE Copies(_, _)
Copies(bag, S) ==
  IF S = {} THEN 0
  ELSE LET x == CHOOSE y \in S : TRUE IN bag[x] + Copies(bag, S \ {x})

TimersLater(bag, delta) ==
  LET moved(t) == [t EXCEPT !.remaining = Later(@, delta)] IN
  [t \in {moved(x) : x \in DOMAIN bag} |->
     Copies(bag, {x \in DOMAIN bag : moved(x) = t})]

\* `delta` ticks of the clock pass.
Advance(delta) ==
  /\ ~aborted
  /\ \E timer \in BagToSet(timers) : timer.remaining > 0
  /\ timers' = TimersLater(timers, delta)
  /\ streams' = [k \in DOMAIN streams |->
        [streams[k] EXCEPT !.timeout = {Later(x, delta) : x \in @}]]
  /\ result' = [value |-> "void", state |-> EmptyState]
  /\ forwarded' = <<>>
  /\ UNCHANGED <<frameworkStreams, paused, files, dirs, aborted, intervals,
                 delivery>>

MaxRecover == 1
RecoverLists == UNION {[1..n -> StreamIds] : n \in 1..MaxRecover}

\* recover(streamIds, strict), with at most one failing file system call.
RecoverAny ==
  \E streamIds \in RecoverLists, strict \in BOOLEAN,
     i \in 0..MaxRecover, call \in RecoverIo :
    /\ (i = 0) = (call = "ok")
    /\ i <= Len(streamIds)
    /\ Recover(streamIds, strict, <<i, call>>)

\* The whole manager.
Next ==
  \/ \E u \in Updates, streamId \in StreamIds, checkpoint \in BOOLEAN,
        io \in IoOutcomes, write \in WriteOutcomes :
       Update(u, streamId, checkpoint, io, write)
  \/ \E streamId \in StreamIds, uuid \in UUIDs, write \in WriteOutcomes :
       Acknowledgement(streamId, uuid, write)
  \/ Pause
  \/ Resume
  \/ \E frameworkId \in FrameworkIds : Cleanup(frameworkId)
  \/ RecoverAny
  \/ Timeout
  \/ Advance(1)

Spec == Init /\ [][Next]_vars

\* The manager without checkpointing, on the clock's finest scale.
NextSend ==
  \/ \E u \in Updates, streamId \in StreamIds :
       Update(u, streamId, FALSE, "ok", "ok")
  \/ \E streamId \in StreamIds, uuid \in UUIDs :
       Acknowledgement(streamId, uuid, "ok")
  \/ Pause
  \/ Resume
  \/ \E frameworkId \in FrameworkIds : Cleanup(frameworkId)
  \/ Timeout
  \/ Advance(1)

SpecSend == Init /\ [][NextSend]_vars

\* The same manager, keeping the history of retry intervals.
InitBackoff ==
  /\ Constructed(StreamIds)
  /\ intervals = NoIntervals(TRUE)
  /\ delivery = NoDelivery(FALSE)

\* The manager is never paused, and every delayed dispatch runs as soon as
\* its delay has passed: the clock stands still while one is due.
NextBackoff ==
  \/ \E u \in Updates, streamId \in StreamIds :
       Update(u, streamId, FALSE, "ok", "ok")
  \/ \E streamId \in StreamIds, uuid \in UUIDs :
       Acknowledgement(streamId, uuid, "ok")
  \/ \E frameworkId \in FrameworkIds : Cleanup(frameworkId)
  \/ Timeout
  \/ /\ \A timer \in BagToSet(timers) : timer.remaining > 0
     /\ Advance(1)

SpecBackoff == InitBackoff /\ [][NextBackoff]_vars

\* The manager without checkpointing, keeping the history of delivery.
\* An acknowledgement answers a forward: it carries the status UUID of an
\* update that was forwarded for the stream.
InitDelivery ==
  /\ Constructed(StreamIds)
  /\ intervals = NoIntervals(FALSE)
  /\ delivery = NoDelivery(TRUE)

NextDelivery ==
  \/ \E u \in Updates, streamId \in StreamIds :
       Update(u, streamId, FALSE, "ok", "ok")
  \/ \E streamId \in StreamIds, uuid \in UUIDs :
       /\ streamId \in DOMAIN delivery.sent
       /\ uuid \in Uuids(delivery.sent[streamId])
       /\ Acknowledgement(streamId, uuid, "ok")
  \/ Pause
  \/ Resume
  \/ \E frameworkId \in FrameworkIds : Cleanup(frameworkId)
  \/ Timeout
  \/ Advance(STATUS_UPDATE_RETRY_INTERVAL_MAX)

SpecDelivery == InitDelivery /\ [][NextDelivery]_vars

\* The manager with checkpointing, without recovery.  Time passes in
\* steps of the longest retry interval, and a stream that is not
\* checkpointed is started only for an id that has no checkpoint file.
NextCheckpoint ==
  \/ \E u \in Updates, streamId \in StreamIds, checkpoint \in BOOLEAN,
        io \in IoOutcomes, write \in WriteOutcomes :
       /\ checkpoint \/ ~files[streamId].exists
       /\ Update(u, streamId, checkpoint, io, write)
  \/ \E streamId \in StreamIds, uuid \in UUIDs, write \in WriteOutcomes :
       Acknowledgement(streamId, uuid, write)
  \/ Pause
  \/ Resume
  \/ \E frameworkId \in FrameworkIds : Cleanup(frameworkId)
  \/ Timeout
  \/ Advance(STATUS_UPDATE_RETRY_INTERVAL_MAX)

SpecCheckpoint == Init /\ [][NextCheckpoint]_vars

\* The manager with checkpointed streams only, and recovery.
NextRecover ==
  \/ \E u \in Updates, streamId \in StreamIds, write \in WriteOutcomes :
       Update(u, streamId, TRUE, "ok", write)
  \/ \E streamId \in StreamIds, uuid \in UUIDs, write \in WriteOutcomes :
       Acknowledgement(streamId, uuid, write)
  \/ Pause
  \/ Resume
  \/ \E frameworkId \in FrameworkIds : Cleanup(frameworkId)
  \/ RecoverAny
  \/ Timeout
  \/ Advance(STATUS_UPDATE_RETRY_INTERVAL_MAX)

SpecRecover == Init /\ [][NextRecover]_vars

\* The process dies and is constructed again: the manager's memory and the
\* delayed dispatches are gone, the checkpoint files are as they were.
Crash ==
  /\ ~aborted
  /\ streams' = <<>>
  /\ frameworkStreams' = <<>>
  /\ paused' = FALSE
  /\ timers' = EmptyBag
  /\ result' = [value |-> "void", state |-> EmptyState]
  /\ forwarded' = <<>>
  /\ delivery' = NoDelivery(delivery.kept)
  /\ UNCHANGED <<files, dirs, aborted, intervals>>

\* Crash and recovery of checkpointed streams that receive up to
\* MaxCrashUUIDs updates of one framework; no file system call fails.
MaxCrashUUIDs == 3
CrashUUIDs == 1..MaxCrashUUIDs
CrashUpdates ==
  [status_uuid : {Some(u) : u \in CrashUUIDs},
   framework_id : {Some(f) : f \in FrameworkIds},
   terminal : BOOLEAN]

NextCrash ==
  \/ \E u \in CrashUpdates, streamId \in StreamIds :
       Update(u, streamId, TRUE, "ok", "ok")
  \/ \E streamId \in StreamIds, uuid \in CrashUUIDs :
       Acknowledgement(streamId, uuid, "ok")
  \/ Pause
  \/ Crash
  \/ \E streamId \in StreamIds, strict \in BOOLEAN :
       Recover(<<streamId>>, strict, <<0, "ok">>)
  \/ Timeout
  \/ Advance(STATUS_UPDATE_RETRY_INTERVAL_MAX)

SpecCrash == Init /\ [][NextCrash]_vars

\* Checkpointed streams whose writes can fail or stop half way, cleanup,
\* crash and recovery.  No delayed dispatch runs before the next crash.
NextTorn ==
  \/ \E u \in Updates, streamId \in StreamIds, write \in WriteOutcomes :
       Update(u, streamId, TRUE, "ok", write)
  \/ \E streamId \in StreamIds, uuid \in UUIDs, write \in WriteOutcomes :
       Acknowledgement(streamId, uuid, write)
  \/ Pause
  \/ \E frameworkId \in FrameworkIds : Cleanup(frameworkId)
  \/ Crash
  \/ RecoverAny

SpecTorn == Init /\ [][NextTorn]_vars

\* Streams started with and without checkpointing for the same stream
\* id, crash and recovery; no file system call fails and no delayed
\* dispatch runs before the next crash.  Every update has a status UUID.
MixedUpdates == {u \in Updates : isSome(u.status_uuid)}

NextMixed ==
  \/ \E u \in MixedUpdates, streamId \in StreamIds, checkpoint \in BOOLEAN :
       Update(u, streamId, checkpoint, "ok", "ok")
  \/ \E streamId \in StreamIds, uuid \in UUIDs :
       Acknowledgement(streamId, uuid, "ok")
  \/ \E frameworkId \in FrameworkIds : Cleanup(frameworkId)
  \/ Crash
  \/ \E streamId \in StreamIds, strict \in BOOLEAN :
       Recover(<<streamId>>, strict, <<0, "ok">>)

SpecMixed == Init /\ [][NextMixed]_vars

\* Recovery of several streams in one call: MaxListed stream ids, each
\* with at most one update, checkpointed; strict and non-strict recover of
\* every list of distinct ids, with at most one failing file system call.
\* No delayed dispatch runs before the next crash.
MaxListed == 2
ListedIds == 1..MaxListed
ListedUpdates ==
  [status_uuid : {Some(1)},
   framework_id : {None} \cup {Some(f) : f \in FrameworkIds},
   terminal : BOOLEAN]
Lists ==
  {l \in UNION {[1..n -> ListedIds] : n \in 1..MaxListed} :
     \A i, j \in DOMAIN l : i # j => l[i] # l[j]}

InitListed ==
  /\ Constructed(ListedIds)
  /\ intervals = NoIntervals(FALSE)
  /\ delivery = NoDelivery(FALSE)

NextListed ==
  \/ \E u \in ListedUpdates, streamId \in ListedIds :
       Update(u, streamId, TRUE, "ok", "ok")
  \/ \E streamId \in ListedIds : Acknowledgement(streamId, 1, "ok")
  \/ Crash
  \/ \E streamIds \in Lists, strict \in BOOLEAN,
        i \in 0..MaxListed, call \in RecoverIo :
       /\ (i = 0) = (call = "ok")
       /\ i <= Len(streamIds)
       /\ Recover(streamIds, strict, <<i, call>>)

SpecListed == InitListed /\ [][NextListed]_vars

\* Pause and resume of several streams: MaxListed stream ids, each with
\* at most one update, checkpointed, with writes that can fail.  No
\* delayed dispatch runs.
NextResumed ==
  \/ \E u \in ListedUpdates, streamId \in ListedIds, write \in WriteOutcomes :
       Update(u, streamId, TRUE, "ok", write)
  \/ \E streamId \in ListedIds, write \in WriteOutcomes :
       Acknowledgement(streamId, 1, write)
  \/ Pause
  \/ Resume

SpecResumed == InitListed /\ [][NextResumed]_vars

\* Retries under fair delivery of the delayed dispatches: a checkpointed
\* stream whose writes can fail, pause and resume.  A dispatch whose
\* delay has passed runs eventually (process::delay puts it in the
\* manager's mailbox), and time passes while a dispatch waits.
RetryUpdates ==
  {u \in Updates : isSome(u.status_uuid) /\ ~isSome(u.framework_id)}

NextRetry ==
  \/ \E u \in RetryUpdates, streamId \in StreamIds, write \in WriteOutcomes :
       Update(u, streamId, TRUE, "ok", write)
  \/ \E streamId \in StreamIds, uuid \in UUIDs :
       Acknowledgement(streamId, uuid, "ok")
  \/ Pause
  \/ Resume
  \/ Timeout
  \/ Advance(STATUS_UPDATE_RETRY_INTERVAL_MAX)

SpecRetry ==
  /\ Init
  /\ [][NextRetry]_vars
  /\ WF_vars(Timeout)
  /\ WF_vars(Advance(STATUS_UPDATE_RETRY_INTERVAL_MAX))

\* Recovery from any checkpoint file: the file that recover reads is an
\* input, and it can hold what no stream of this manager wrote.  Every
\* sequence of at most MaxRead records is a file: UPDATE records, ACK
\* records and records that ::protobuf::read cannot parse, with or
\* without a partly written record behind them.
MaxRead == 3
ReadUpdates ==
  {u \in Updates : isSome(u.status_uuid) /\ ~isSome(u.framework_id)}
ReadRecords ==
  {UpdateRecord(u) : u \in ReadUpdates} \cup {AckRecord(u) : u \in ReadUpdates}
    \cup {Garbled}
ReadFiles ==
  [exists : {TRUE},
   records : UNION {[1..n -> ReadRecords] : n \in 0..MaxRead},
   torn : BOOLEAN]

InitRead ==
  /\ streams = <<>>
  /\ frameworkStreams = <<>>
  /\ paused = FALSE
  /\ files \in [StreamIds -> ReadFiles]
  /\ dirs = StreamIds
  /\ timers = EmptyBag
  /\ aborted = FALSE
  /\ result = [value |-> "void", state |-> EmptyState]
  /\ forwarded = <<>>
  /\ intervals = NoIntervals(FALSE)
  /\ delivery = NoDelivery(FALSE)

NextRead ==
  \/ Pause
  \/ Crash
  \/ RecoverAny

SpecRead == InitRead /\ [][NextRead]_vars

\* Streams of several frameworks: MaxListed stream ids without
\* checkpointing, each with at most one update, of one of MaxCleaned
\* frameworks or of none.
MaxCleaned == 2
CleanedIds == 1..MaxCleaned
CleanedUpdates ==
  [status_uuid : {Some(1)},
   framework_id : {None} \cup {Some(f) : f \in CleanedIds},
   terminal : BOOLEAN]

NextCleaned ==
  \/ \E u \in CleanedUpdates, streamId \in ListedIds :
       Update(u, streamId, FALSE, "ok", "ok")
  \/ \E streamId \in ListedIds : Acknowledgement(streamId, 1, "ok")
  \/ \E frameworkId \in CleanedIds : Cleanup(frameworkId)
  \/ Timeout
  \/ Advance(STATUS_UPDATE_RETRY_INTERVAL_MAX)

SpecCleaned == InitListed /\ [][NextCleaned]_vars

\* ------------------------------------------------------------ properties
\* `to` is `from` after at most one update joined it at the back or left it
\* at the front.
Fifo(from, to) ==
  \/ to = from
  \/ from # <<>> /\ to = Tail(from)
  \/ to # <<>> /\ from = SubSeq(to, 1, Len(to) - 1)

\* C1: per stream, the updates handed to the forward callback follow the
\* order of acceptance into pending.  Every update an operation forwards
\* is the head of its stream's pending queue, every update of that stream
\* received before it is acknowledged or behind it in the queue, and a
\* queue changes only by an accepted update joining at the back or the
\* acknowledged head leaving at the front.
C1_ForwardOrder ==
  [][/\ \A i \in 1..Len(forwarded') :
          LET f == forwarded'[i] IN
          /\ f.id \in DOMAIN streams'
          /\ streams'[f.id].pending # <<>>
          /\ f.update = Head(streams'[f.id].pending)
          /\ streams'[f.id].received =
               streams'[f.id].acknowledged \cup Uuids(streams'[f.id].pending)
          /\ get(f.update.status_uuid) \notin streams'[f.id].acknowledged
     /\ \A id \in DOMAIN streams \cap DOMAIN streams' :
          /\ Fifo(streams[id].pending, streams'[id].pending)
          /\ Len(streams'[id].pending) < Len(streams[id].pending)
               => get(Head(streams[id].pending).status_uuid)
                    \in streams'[id].acknowledged
          /\ Len(streams'[id].pending) = Cardinality(Uuids(streams'[id].pending))
    ]_vars

\* C1 witness: with two updates pending, the second has just been forwarded
\* on the acknowledgement of the first.
C1_Witness ==
  /\ result.value = "true"
  /\ Len(forwarded) = 1
  /\ \E id \in DOMAIN streams :
       /\ forwarded[1].id = id
       /\ streams[id].acknowledged # {}
       /\ forwarded[1].update = Head(streams[id].pending)

\* `u` carries a status UUID that stream `id` has received or acknowledged.
Duplicate(u, id) ==
  /\ id \in DOMAIN streams
  /\ isSome(u.status_uuid)
  /\ get(u.status_uuid) \in streams[id].received \cup streams[id].acknowledged

\* The call's checkpoint flag and framework id are those of stream `id`.
Matches(u, id, cp) ==
  /\ streams[id].checkpointed = cp
  /\ u.framework_id = streams[id].frameworkId

\* C2: in every reachable state, a call of update with a status UUID the
\* stream has received or acknowledged changes nothing (received,
\* acknowledged, pending, terminated, timeout, the registry, the files and
\* the timers stay as they are) and forwards nothing.  It succeeds when
\* the stream has no error and the call's checkpoint flag and framework id
\* are the stream's, and fails otherwise.
C2_DuplicateUpdate ==
  \A u \in Updates, id \in StreamIds : Duplicate(u, id) =>
    \A cp \in BOOLEAN, io \in IoOutcomes, wr \in WriteOutcomes :
      LET r == update(World, u, id, cp, io, wr) IN
      /\ r.world = World
      /\ r.value = "Nothing"
           <=> (Matches(u, id, cp) /\ ~isSome(streams[id].error))
      /\ r.value \in
           {"Nothing", "Failure: mismatched checkpoint",
            "Failure: mismatched framework", "Failure: Error: write"}

\* C2 as stated: a duplicate update succeeds, even given that the call's
\* checkpoint flag and framework id are the stream's.
C2_DuplicateSucceeds ==
  \A u \in Updates, id \in StreamIds : Duplicate(u, id) =>
    \A cp \in BOOLEAN, io \in IoOutcomes, wr \in WriteOutcomes :
      Matches(u, id, cp) =>
        LET r == update(World, u, id, cp, io, wr) IN
        /\ r.world = World
        /\ r.value = "Nothing"

\* C2 witness: update has returned Nothing for a stream whose queue is
\* empty and that has acknowledged an update, so the call was a duplicate.
C2_Witness ==
  /\ result.value = "Nothing"
  /\ forwarded = <<>>
  /\ \A id \in StreamIds :
       /\ id \in DOMAIN streams
       /\ streams[id].pending = <<>>
       /\ streams[id].acknowledged # {}
       /\ ~isSome(streams[id].error)

\* The status UUID of the update at the head of stream `id`'s queue.
HeadUuid(id) == get(Head(streams[id].pending).status_uuid)

\* C3: in every reachable state, an acknowledgement whose UUID is not that
\* of the head of the stream's pending queue (a UUID already acknowledged
\* included) is a failure and changes nothing: the stream, the registry,
\* the files and the timers stay as they are and nothing is forwarded.
C3_AckNotHead ==
  \A id \in DOMAIN streams, uuid \in UUIDs, wr \in WriteOutcomes :
    (streams[id].pending # <<>> /\ uuid # HeadUuid(id)) =>
      LET r == acknowledgement(World, id, uuid, wr) IN
      /\ r.world = World
      /\ r.value \in {"Failure: duplicate acknowledgement", "Failure: Error: write"}
      /\ r.value = "Failure: Error: write" <=> isSome(streams[id].error)

\* C3 witness: an acknowledgement has been refused as a duplicate on a
\* stream that has an update pending and an update acknowledged.
C3_Witness ==
  /\ result.value = "Failure: duplicate acknowledgement"
  /\ \E id \in DOMAIN streams :
       /\ streams[id].pending # <<>>
       /\ streams[id].acknowledged # {}

\* C4: in every reachable state, an acknowledgement for a registered stream
\* with nothing pending fails with an error and changes nothing, and an
\* acknowledgement for a stream id that is not registered fails and
\* changes nothing, so no stream is created.
C4_AckNothingPending ==
  \A id \in StreamIds, uuid \in UUIDs, wr \in WriteOutcomes :
    LET r == acknowledgement(World, id, uuid, wr) IN
    /\ (id \in DOMAIN streams /\ streams[id].pending = <<>>) =>
         /\ r.world = World
         /\ r.value = IF isSome(streams[id].error)
                        THEN "Failure: Error: write"
                        ELSE "Failure: Error: unexpected acknowledgement"
    /\ id \notin DOMAIN streams =>
         /\ r.world = World
         /\ r.value = "Failure: cannot find the stream"

\* C4 witness: an acknowledgement has failed on a registered stream that
\* has acknowledged an update and has nothing pending.
C4_Witness ==
  /\ result.value = "Failure: Error: unexpected acknowledgement"
  /\ \E id \in DOMAIN streams :
       /\ streams[id].pending = <<>>
       /\ streams[id].acknowledged # {}

\* The acknowledgement of `uuid` on stream `id` is handled: the stream is
\* registered and has no error, `uuid` is that of the head of its queue,
\* and the checkpoint write, if there is one, succeeds.
Handled(id, uuid, wr) ==
  /\ id \in DOMAIN streams
  /\ ~isSome(streams[id].error)
  /\ streams[id].pending # <<>>
  /\ uuid = HeadUuid(id)
  /\ streams[id].checkpointed => wr = "ok"

\* C5: in every reachable state, a handled acknowledgement returns false
\* exactly when the acknowledged head is terminal, the stream being
\* terminated then, and true otherwise; an acknowledgement that is not
\* handled returns a failure, neither true nor false.
C5_AckValue ==
  \A id \in StreamIds, uuid \in UUIDs, wr \in WriteOutcomes :
    LET r == acknowledgement(World, id, uuid, wr) IN
    IF Handled(id, uuid, wr)
      THEN /\ r.value = IF Head(streams[id].pending).terminal
                          THEN "false" ELSE "true"
           /\ Stream_acknowledgement(streams[id], files[id], uuid, wr)
                .stream.terminated = Head(streams[id].pending).terminal
      ELSE r.value \in
             {"Failure: cannot find the stream",
              "Failure: duplicate acknowledgement",
              "Failure: Error: unexpected acknowledgement",
              "Failure: Error: write"}

\* C5 witness: an acknowledgement has returned false.
C5_Witness ==
  /\ result.value = "false"
  /\ streams = <<>>

Met(u, id, cp) ==
  IF id \in DOMAIN streams THEN streams[id]
  ELSE [NewStream(cp) EXCEPT !.frameworkId = u.framework_id]

\* An update with a new status UUID that stream `id` will accept.
Acceptable(u, id, cp) ==
  /\ isSome(u.status_uuid)
  /\ IF id \in DOMAIN streams
       THEN /\ ~Duplicate(u, id)
            /\ Matches(u, id, cp)
            /\ ~isSome(streams[id].error)
       ELSE cp => ~files[id].exists

\* C7: no forward while paused.  No operation that leaves the manager
\* paused has called the forward callback, and no CHECK(!paused) has ever
\* failed; in a paused state a timer that runs changes nothing but its own
\* going, so it neither forwards nor arms a timer, while an update that is
\* accepted still joins received and pending and a handled
\* acknowledgement still joins acknowledged and leaves pending, neither
\* forwarding nor arming a timer.
C7_PausedNoForward ==
  /\ result.value # "CHECK(!paused)"
  /\ paused =>
       /\ forwarded = <<>>
       /\ \A timer \in BagToSet(timers) :
            LET w == [World EXCEPT !.timers = @ (-) SetToBag({timer})] IN
            timeout(w, timer.id, timer.duration) = w
       /\ \A u \in Updates, id \in StreamIds, cp \in BOOLEAN :
            Acceptable(u, id, cp) =>
              LET r == update(World, u, id, cp, "ok", "ok") IN
              /\ r.value = "Nothing"
              /\ r.world.streams[id].received =
                   Met(u, id, cp).received \cup u.status_uuid
              /\ r.world.streams[id].pending = Append(Met(u, id, cp).pending, u)
              /\ r.world.streams[id].timeout = Met(u, id, cp).timeout
              /\ r.world.forwarded = <<>>
              /\ r.world.timers = timers
       /\ \A id \in StreamIds, uuid \in UUIDs :
            Handled(id, uuid, "ok") =>
              LET r == acknowledgement(World, id, uuid, "ok")
                  s == Stream_acknowledgement(streams[id], files[id], uuid, "ok")
              IN /\ r.value \in {"true", "false"}
                 /\ s.stream.acknowledged = streams[id].acknowledged \cup {uuid}
                 /\ s.stream.pending = Tail(streams[id].pending)
                 /\ r.value = "true" =>
                      r.world.streams[id] = [s.stream EXCEPT !.timeout = None]
                 /\ r.world.forwarded = <<>>
                 /\ r.world.timers = timers

\* C7 witness: while the manager is paused, recover has registered a
\* stream that has an update pending, and has forwarded nothing and set no
\* timeout.
C7_Witness ==
  /\ paused
  /\ result.value = "State"
  /\ forwarded = <<>>
  /\ \E id \in DOMAIN streams :
       /\ id \in DOMAIN result.state.streams
       /\ result.state.streams[id] # None
       /\ streams[id].pending # <<>>
       /\ streams[id].timeout = None
       /\ streams[id].acknowledged # {}

\* The stream that StatusUpdateStream::recover makes of the checkpoint
\* file of stream `id` is stream `id` as it is in memory, timeout and
\* error apart.
Reproduced(id, strict) ==
  LET r == Stream_recover(World, id, strict, "ok") IN
  /\ r.kind = "Some"
  /\ r.stream.received = streams[id].received
  /\ r.stream.acknowledged = streams[id].acknowledged
  /\ r.stream.pending = streams[id].pending
  /\ r.stream.frameworkId = streams[id].frameworkId
  /\ r.stream.terminated = streams[id].terminated

\* C8: in every state reached by updates and acknowledgements, successful
\* or failed, recovery from the checkpoint file of a registered
\* checkpointed stream that has received an update reproduces the
\* stream's received, acknowledged, pending (in order), frameworkId and
\* terminated.
C8_ReplayReproduces ==
  \A id \in DOMAIN streams, strict \in BOOLEAN :
    (streams[id].checkpointed /\ streams[id].received # {}) =>
      Reproduced(id, strict)

\* C8 as stated, of the registered checkpointed streams that have received
\* an update or seen a write fail: recovery reproduces each of them.
C8_ReplayEvery ==
  \A id \in DOMAIN streams, strict \in BOOLEAN :
    (/\ streams[id].checkpointed
     /\ streams[id].received # {} \/ isSome(streams[id].error)) =>
      Reproduced(id, strict)

\* C8 witness: a checkpointed stream with an update acknowledged, another
\* pending, and a write that failed part way, whose file recovery
\* reproduces it.
C8_Witness ==
  \E id \in DOMAIN streams :
    /\ streams[id].checkpointed
    /\ streams[id].acknowledged # {}
    /\ streams[id].pending # <<>>
    /\ isSome(streams[id].error)
    /\ files[id].torn
    /\ Reproduced(id, TRUE)

\* The records of the checkpoint file that an update for `id` meets.
Records(id) == IF files[id].exists THEN files[id].records ELSE <<>>

\* C9: checkpointing is write-ahead.  In every reachable state, an update
\* that a checkpointed stream accepts and an acknowledgement that it
\* handles append their record to the file when the write succeeds; when
\* the write fails, wholly or part way, the operation returns a failure,
\* forwards nothing, arms no timer, and changes nothing of the stream but
\* its error, which it sets.
C9_WriteAhead ==
  \A id \in StreamIds, wr \in WriteOutcomes :
    /\ \A u \in Updates :
         Acceptable(u, id, TRUE) =>
           LET r == update(World, u, id, TRUE, "ok", wr) IN
           IF wr = "ok"
             THEN /\ r.value = "Nothing"
                  /\ r.world.files[id].records = Append(Records(id), UpdateRecord(u))
             ELSE /\ r.value = "Failure: Error: write"
                  /\ r.world.streams[id] =
                       [Met(u, id, TRUE) EXCEPT !.error = Some("write")]
                  /\ r.world.files[id].records = Records(id)
                  /\ r.world.forwarded = <<>>
                  /\ r.world.timers = timers
    /\ \A uuid \in UUIDs :
         (Handled(id, uuid, "ok") /\ streams[id].checkpointed) =>
           LET r == acknowledgement(World, id, uuid, wr) IN
           IF wr = "ok"
             THEN /\ r.value \in {"true", "false"}
                  /\ r.world.files[id].records =
                       Append(Records(id), AckRecord(Head(streams[id].pending)))
             ELSE /\ r.value = "Failure: Error: write"
                  /\ r.world.streams =
                       [streams EXCEPT ![id].error = Some("write")]
                  /\ r.world.frameworkStreams = frameworkStreams
                  /\ r.world.files[id].records = Records(id)
                  /\ r.world.forwarded = <<>>
                  /\ r.world.timers = timers

\* C9 witness: the write of the first update of a checkpointed stream has
\* failed: the update has returned the failure and forwarded nothing, and
\* the stream has the error and has received nothing.
C9_Witness ==
  /\ result.value = "Failure: Error: write"
  /\ forwarded = <<>>
  /\ \E id \in DOMAIN streams :
       /\ streams[id].checkpointed
       /\ isSome(streams[id].error)
       /\ streams[id].received = {}
       /\ files[id].records = <<>>

\* In every reachable state, every update and every acknowledgement on a
\* stream that has an error fails, with that error when it gets as far as
\* the stream, and changes nothing.
ErrorFails ==
  \A id \in DOMAIN streams : isSome(streams[id].error) =>
    /\ \A u \in Updates, cp \in BOOLEAN, io \in IoOutcomes, wr \in WriteOutcomes :
         LET r == update(World, u, id, cp, io, wr) IN
         /\ r.world = World
         /\ r.value = IF Matches(u, id, cp)
                        THEN "Failure: Error: " \o get(streams[id].error)
                        ELSE r.value
         /\ r.value \in {"Failure: Error: write", "Failure: mismatched checkpoint",
                         "Failure: mismatched framework"}
    /\ \A uuid \in UUIDs, wr \in WriteOutcomes :
         LET r == acknowledgement(World, id, uuid, wr) IN
         /\ r.world = World
         /\ r.value = "Failure: Error: " \o get(streams[id].error)

\* A step keeps every stream that has an error registered, with its
\* error, or is the cleanup of the stream's framework.
ErrorStays ==
  \A id \in DOMAIN streams : isSome(streams[id].error) =>
    \/ /\ id \in DOMAIN streams'
       /\ streams'[id].error = streams[id].error
       /\ streams'[id].received = streams[id].received
       /\ streams'[id].acknowledged = streams[id].acknowledged
       /\ streams'[id].pending = streams[id].pending
       /\ streams'[id].terminated = streams[id].terminated
    \/ /\ result'.value = "void"
       /\ isSome(streams[id].frameworkId)
       /\ get(streams[id].frameworkId) \notin DOMAIN frameworkStreams'

SchemaRejections ==
  {"Failure: mismatched checkpoint", "Failure: mismatched framework",
   "Failure: Error: missing status_uuid"}

\* C11: in every reachable state, a call of update that is rejected for
\* its schema leaves the manager, the files and the timers as they were
\* and forwards nothing, also when the stream id was not registered.
C11_RejectedUnchanged ==
  \A u \in Updates, id \in StreamIds, cp \in BOOLEAN :
    LET r == update(World, u, id, cp, "ok", "ok") IN
    r.value \in SchemaRejections => r.world = World

\* C11 witness: update has rejected an update without a status UUID, and
\* the stream it created for the call is registered: it has received
\* nothing, its checkpoint file exists and is empty, and its framework
\* has an entry in the index.
C11_Witness ==
  /\ result.value = "Failure: Error: missing status_uuid"
  /\ \E id \in DOMAIN streams :
       /\ streams[id].received = {}
       /\ streams[id].acknowledged = {}
       /\ streams[id].checkpointed
       /\ files[id] = EmptyFile
       /\ \E f \in DOMAIN frameworkStreams : id \in frameworkStreams[f]

\* What the delayed dispatch `timer` does when it runs now.
Expiry(timer) ==
  timeout([World EXCEPT !.timers = @ (-) SetToBag({timer})],
          timer.id, timer.duration)

\* The interval that follows `previous` in the backoff schedule.
Doubled(previous) == Min(2 * previous, STATUS_UPDATE_RETRY_INTERVAL_MAX)

\* C12: bounded exponential backoff, in a manager that is never paused.
\* The forward of a head by update or acknowledgement arms an interval of
\* STATUS_UPDATE_RETRY_INTERVAL_MIN, and every delayed dispatch that
\* forwards when it runs forwards the head of the queue and arms the
\* double of the interval armed by the stream's previous forward, capped
\* at STATUS_UPDATE_RETRY_INTERVAL_MAX; so the interval neither exceeds
\* the cap nor decreases.
C12_Backoff ==
  /\ result.value # "void" =>
       \A i \in 1..Len(forwarded) :
         forwarded[i].duration = STATUS_UPDATE_RETRY_INTERVAL_MIN
  /\ \A timer \in BagToSet(timers) : timer.remaining = 0 =>
       LET w == Expiry(timer) IN
       w.forwarded # <<>> =>
         /\ w.forwarded[1].update = Head(streams[timer.id].pending)
         /\ w.forwarded[1].duration = Doubled(intervals.of[timer.id])
         /\ w.forwarded[1].duration >= intervals.of[timer.id]
         /\ w.forwarded[1].duration <= STATUS_UPDATE_RETRY_INTERVAL_MAX

\* C12 witness: a delayed dispatch has forwarded the head of a stream and
\* armed the longest interval, while the dispatch of the shortest interval
\* has not yet run: the head was forwarded for the first time one shortest
\* interval ago.
C12_Witness ==
  /\ intervals.kept
  /\ result.value = "void"
  /\ Len(forwarded) = 1
  /\ forwarded[1].duration = STATUS_UPDATE_RETRY_INTERVAL_MAX
  /\ \E timer \in BagToSet(timers) :
       /\ timer.id = forwarded[1].id
       /\ timer.duration = STATUS_UPDATE_RETRY_INTERVAL_MIN
       /\ timer.remaining = 0

\* What a checkpoint log says: the updates of its UPDATE records in the
\* order of the log, the status UUIDs of its ACK records, the updates not
\* acknowledged, and whether a terminal update is acknowledged.
LogUpdates(records) ==
  LET written == SelectSeq(records, LAMBDA record : record.type = "UPDATE") IN
  [i \in 1..Len(written) |-> get(written[i].update)]

LogAcknowledged(records) ==
  {get(records[i].uuid) : i \in {j \in 1..Len(records) : records[j].type = "ACK"}}

LogPending(records) ==
  SelectSeq(LogUpdates(records),
            LAMBDA u : get(u.status_uuid) \notin LogAcknowledged(records))

LogTerminated(records) ==
  \E i \in 1..Len(LogUpdates(records)) :
    /\ LogUpdates(records)[i].terminal
    /\ get(LogUpdates(records)[i].status_uuid) \in LogAcknowledged(records)

\* C13: recovery resumes delivery.  In every reachable state (after a
\* crash in particular) recover of a stream id whose log holds an update
\* returns a State; when the log acknowledges no terminal update the
\* stream is registered with the received set, the acknowledged set and
\* the queue, in order, that the log says (accepted u1, u2, u3 and
\* acknowledged u1: queue u2, u3), under its framework in the index.
\* recover forwards the head of a queue that is not empty exactly once,
\* with STATUS_UPDATE_RETRY_INTERVAL_MIN, when the manager is not paused,
\* and forwards nothing and arms no timer when it is paused, when the
\* queue is empty and when the stream has terminated.
C13_RecoverResumes ==
  \A id \in StreamIds, strict \in BOOLEAN :
    files[id].records # <<>> =>
      LET r == recover(World, <<id>>, strict, <<0, "ok">>)
          records == files[id].records
          forwards == ~paused /\ ~LogTerminated(records)
                        /\ LogPending(records) # <<>>
      IN
      /\ r.value = "State"
      /\ ~r.world.aborted
      /\ r.state.errors = 0
      /\ ~LogTerminated(records) =>
           /\ id \in DOMAIN r.world.streams
           /\ r.world.streams[id].pending = LogPending(records)
           /\ r.world.streams[id].acknowledged = LogAcknowledged(records)
           /\ r.world.streams[id].received =
                Uuids(LogUpdates(records))
           /\ ~r.world.streams[id].terminated
           /\ \A f \in FrameworkIds :
                r.world.streams[id].frameworkId = Some(f) =>
                  /\ f \in DOMAIN r.world.frameworkStreams
                  /\ id \in r.world.frameworkStreams[f]
           /\ r.world.streams[id].timeout =
                IF forwards THEN Some(STATUS_UPDATE_RETRY_INTERVAL_MIN) ELSE None
      /\ r.world.forwarded =
           IF forwards
             THEN <<[id |-> id, update |-> Head(LogPending(records)),
                     duration |-> STATUS_UPDATE_RETRY_INTERVAL_MIN]>>
             ELSE <<>>
      /\ BagCardinality(r.world.timers) =
           BagCardinality(timers) + (IF forwards THEN 1 ELSE 0)

\* C13 witness: after a crash, recover has returned a State and made one
\* forward, of the update with UUID 2, for a stream that it registered
\* with the queue 2, 3, the acknowledged set {1} and the received set
\* {1, 2, 3}; the only timer is the one of that forward.
C13_Witness ==
  /\ result.value = "State"
  /\ ~paused
  /\ BagCardinality(timers) = 1
  /\ \E id \in DOMAIN streams :
       /\ [i \in 1..Len(streams[id].pending) |->
             get(streams[id].pending[i].status_uuid)] = <<2, 3>>
       /\ streams[id].acknowledged = {1}
       /\ streams[id].received = {1, 2, 3}
       /\ streams[id].timeout = Some(STATUS_UPDATE_RETRY_INTERVAL_MIN)
       /\ Len(forwarded) = 1
       /\ forwarded[1].id = id
       /\ forwarded[1].update = Head(streams[id].pending)
       /\ forwarded[1].duration = STATUS_UPDATE_RETRY_INTERVAL_MIN
       /\ id \in DOMAIN result.state.streams
       /\ isSome(result.state.streams[id])

\* The ways recover is called on several streams: a list of distinct ids
\* and at most one failing file system call, <<i, call>> for the i-th id.
Calls ==
  {c \in Lists \X ((0..MaxListed) \X RecoverIo) :
     /\ (c[2][1] = 0) = (c[2][2] = "ok")
     /\ c[2][1] <= Len(c[1])}

\* recoverStatusUpdateStream fails for the k-th id of list `l`, after
\* recover has gone through the ids before it.
FailsAt(l, strict, io, k) ==
  LET before == recover(World, SubSeq(l, 1, k - 1), strict, io) IN
  /\ before.value = "State"
  /\ recoverStatusUpdateStream(before.world, l[k], strict,
                               IF io[1] = k THEN io[2] ELSE "ok").kind = "Error"

C15_NonStrictRecords ==
  \A c \in Calls :
    LET l == c[1]
        io == c[2]
        r == recover(World, l, FALSE, io)
        failing == {k \in 1..Len(l) : FailsAt(l, FALSE, io, k)}
    IN
    /\ ~r.world.aborted
    /\ r.value = "State"
    /\ r.state.errors = Cardinality(failing)
    /\ \A k \in 1..Len(l) : l[k] \in DOMAIN r.state.streams
    /\ \A k \in failing : r.state.streams[l[k]] = None

\* C15 witness: a recover of two stream ids has returned a State that
\* counts one error and maps one stream id only, to the updates of its
\* log; that stream is registered.
C15_Witness ==
  /\ result.value = "State"
  /\ result.state.errors = 1
  /\ \E id \in ListedIds :
       /\ DOMAIN result.state.streams = {id}
       /\ isSome(result.state.streams[id])
       /\ id \in DOMAIN streams
       /\ \A other \in ListedIds \ {id} : files[other].exists

\* The checkpoint file of stream `id` does not exist while its directory
\* does.
DirectoryOnly(id) == id \in dirs /\ ~files[id].exists

\* The checkpoint file of stream `id` exists and holds no completely
\* written UPDATE record: it is empty, or a torn record is all it holds.
NoUpdateWritten(id) ==
  files[id].exists /\ LogUpdates(files[id].records) = <<>>

\* C16: in every reachable state, with no file system call failing, the
\* recovery of a stream id yields None exactly when its file is missing
\* from an existing directory or holds no completely written UPDATE
\* record.  recover then maps the id to None and counts no error, no
\* stream is registered or unregistered, nothing is forwarded and no
\* timer is armed; the file does not exist afterwards, and a first update
\* with checkpoint = true for the id, if it is not registered, then
\* creates the file and is accepted.
C16_RecoverNone ==
  \A id \in StreamIds, strict \in BOOLEAN :
    LET r == recoverStatusUpdateStream(World, id, strict, "ok")
        all == recover(World, <<id>>, strict, <<0, "ok">>)
    IN
    /\ r.kind = "None" <=> (DirectoryOnly(id) \/ NoUpdateWritten(id))
    /\ r.kind = "None" =>
         /\ all.value = "State"
         /\ all.state = [streams |-> (id :> None), errors |-> 0]
         /\ all.world = r.world
         /\ ~r.world.aborted
         /\ r.world.forwarded = <<>>
         /\ r.world.timers = timers
         /\ DOMAIN r.world.streams = DOMAIN streams
         /\ r.world.frameworkStreams = frameworkStreams
         /\ id \notin DOMAIN streams => r.world.streams = streams
         /\ r.world.files[id] = NoFile
         /\ id \notin DOMAIN streams =>
              \A u \in Updates : isSome(u.status_uuid) =>
                LET first == update(r.world, u, id, TRUE, "ok", "ok") IN
                /\ first.value = "Nothing"
                /\ id \in DOMAIN first.world.streams
                /\ first.world.files[id] =
                     [EmptyFile EXCEPT !.records = <<UpdateRecord(u)>>]

\* C16 witness: recover has returned a State that maps a stream id to
\* None and counts no error; no stream is registered, nothing was
\* forwarded, and the id's directory exists without the file.
C16_Witness ==
  /\ result.value = "State"
  /\ result.state.errors = 0
  /\ streams = <<>>
  /\ forwarded = <<>>
  /\ \E id \in StreamIds :
       /\ result.state.streams = (id :> None)
       /\ DirectoryOnly(id)

\* The checkpoint file of stream `id` ends in a partly written record
\* behind at least one completely written UPDATE record.
TornTail(id) ==
  files[id].torn /\ LogUpdates(files[id].records) # <<>>

\* What recover(<<id>>, strict) returns from the world `w` whose log of
\* `id` holds `records` and nothing else.
ReadBack(w, id, strict, records) ==
  LET r == recover(w, <<id>>, strict, <<0, "ok">>) IN
  /\ r.value = "State"
  /\ ~r.world.aborted
  /\ r.state = [streams |-> (id :> Some([updates |-> LogUpdates(records),
                                         terminated |-> LogTerminated(records)])),
                errors |-> 0]
  /\ r.world.files[id] = [exists |-> TRUE, records |-> records, torn |-> FALSE]
  /\ ~LogTerminated(records) =>
       /\ id \in DOMAIN r.world.streams
       /\ r.world.streams[id].pending = LogPending(records)
       /\ r.world.streams[id].acknowledged = LogAcknowledged(records)
       /\ r.world.streams[id].received = Uuids(LogUpdates(records))
       /\ ~isSome(r.world.streams[id].error)

\* C17: a torn final record.  In every reachable state in which a log
\* ends in a partly written record behind a complete UPDATE record,
\* recover in strict and in non-strict mode returns a State without
\* errors that holds the updates of the complete records, registers the
\* stream that these records describe, and leaves the file with the
\* complete records and nothing behind them.  An update or an
\* acknowledgement that the recovered stream then accepts is appended, and
\* a second recover reads the complete records and the appended one.
C17_TornTail ==
  \A id \in StreamIds, strict \in BOOLEAN :
    TornTail(id) =>
      LET records == files[id].records
          r == recover(World, <<id>>, strict, <<0, "ok">>)
      IN
      /\ ReadBack(World, id, strict, records)
      /\ ~LogTerminated(records) =>
           /\ \A u \in Updates :
                (/\ isSome(u.status_uuid)
                 /\ get(u.status_uuid) \notin Uuids(LogUpdates(records))
                 /\ u.framework_id = r.world.streams[id].frameworkId) =>
                  LET next == update(r.world, u, id, TRUE, "ok", "ok") IN
                  /\ next.value = "Nothing"
                  /\ \A again \in BOOLEAN :
                       ReadBack(next.world, id, again,
                                Append(records, UpdateRecord(u)))
           /\ LogPending(records) # <<>> =>
                LET head == Head(LogPending(records))
                    next == acknowledgement(r.world, id,
                                            get(head.status_uuid), "ok")
                IN
                /\ next.value \in {"true", "false"}
                /\ \A again \in BOOLEAN :
                     ReadBack(next.world, id, again,
                              Append(records, AckRecord(head)))

\* C17 witness: the state a crash has left, for the recover that the
\* formula applies to it: no stream is registered and no dispatch is
\* delayed, and a log holds two updates and the acknowledgement of the
\* first, then a partly written record.
C17_Witness ==
  /\ result.value = "void"
  /\ streams = <<>>
  /\ timers = EmptyBag
  /\ \E id \in StreamIds :
       /\ TornTail(id)
       /\ Len(files[id].records) = 3
       /\ Len(LogPending(files[id].records)) = 1
       /\ ~LogTerminated(files[id].records)

\* The registered streams of framework `f`.
StreamsOf(f) == {id \in DOMAIN streams : streams[id].frameworkId = Some(f)}

CreateFails(w, id) ==
  \A u \in Updates, io \in IoOutcomes, wr \in WriteOutcomes :
    update(w, u, id, TRUE, io, wr) = [value |-> "Failure: create", world |-> w]

\* The calls that remove the registered stream `id`, given as the worlds
\* they leave: an acknowledgement that returns false, and the cleanup of
\* the stream's framework.
Removals(id) ==
  {acknowledgement(World, id, uuid, "ok").world : uuid \in
     {x \in UUIDs : acknowledgement(World, id, x, "ok").value = "false"}}
  \cup {cleanup(World, f) : f \in {g \in FrameworkIds : id \in StreamsOf(g)}}

\* No step but a recover takes a checkpoint file away.
RecoverDeletes ==
  \A id \in StreamIds :
    (files[id].exists /\ ~files'[id].exists) =>
      result'.value \in {"State", "Failure: recover"}

\* In every reachable state, a first update with checkpoint = true for an
\* unregistered stream id whose file exists fails, and so does one that
\* follows the removal of a checkpointed stream whose file exists.
ExistingFileFails ==
  /\ \A id \in StreamIds \ DOMAIN streams :
       files[id].exists => CreateFails(World, id)
  /\ \A id \in DOMAIN streams :
       (streams[id].checkpointed /\ files[id].exists) =>
         \A w \in Removals(id) :
           /\ id \notin DOMAIN w.streams
           /\ w.files[id].exists
           /\ CreateFails(w, id)

\* C20: a first update with checkpoint = true for a stream id whose
\* checkpoint file exists fails: streams, frameworkStreams, the files and
\* the timers are unchanged and nothing is forwarded.  Only recover
\* deletes a checkpoint file (one without a complete update), no other
\* operation does; so an update with checkpoint = true that arrives after
\* a terminal acknowledgement or a cleanup has removed a checkpointed
\* stream fails in this way provided no recover has deleted the file.
C20_ExistingFile == [](ExistingFileFails) /\ [][RecoverDeletes]_vars

\* C20 as stated: no checkpoint file is ever deleted, so that an update
\* with checkpoint = true fails after every removal, by a terminal
\* acknowledgement or by cleanup, of a checkpointed stream (one that has
\* received an update or has failed to write one).
C20_NeverDeleted ==
  \A id \in DOMAIN streams :
    (/\ streams[id].checkpointed
     /\ streams[id].received # {} \/ isSome(streams[id].error)) =>
      \A w \in Removals(id) : CreateFails(w, id)

\* C20 witness: update has failed to create a stream; no stream is
\* registered, nothing was forwarded, and the file of a stream id holds
\* the acknowledgement of a terminal update, which removed the stream.
C20_Witness ==
  /\ result.value = "Failure: create"
  /\ streams = <<>>
  /\ frameworkStreams = <<>>
  /\ forwarded = <<>>
  /\ \E id \in StreamIds :
       /\ files[id].exists
       /\ LogTerminated(files[id].records)

\* What the manager that is never paused has forwarded for a stream that
\* accepted `accepted` and still holds `pending`: every update that left
\* the queue, and the update at its head.
Unpaused(accepted, pending) ==
  SubSeq(accepted, 1,
         Len(accepted) - Len(pending) + (IF pending = <<>> THEN 0 ELSE 1))

\* `s` is an initial part of `t`.
IsPrefix(s, t) == Len(s) <= Len(t) /\ s = SubSeq(t, 1, Len(s))

C21_RecoveredState ==
  \A id \in StreamIds, strict \in BOOLEAN, call \in RecoverIo :
    LET r == recover(World, <<id>>, strict, <<1, call>>)
        records == files[id].records
    IN (/\ r.value = "State"
        /\ ~r.world.aborted
        /\ id \in DOMAIN r.state.streams
        /\ isSome(r.state.streams[id])) =>
         /\ get(r.state.streams[id]).updates = LogUpdates(records)
         /\ get(r.state.streams[id]).terminated = LogTerminated(records)
         /\ get(r.state.streams[id]).terminated =>
              id \notin DOMAIN r.world.streams

\* C21 witness: recover has reported a stream as terminated with two
\* updates, the first terminal and acknowledged, the second still pending
\* in the log; the stream is not registered.
C21_Witness ==
  /\ result.value = "State"
  /\ \E id \in StreamIds :
       /\ id \in DOMAIN result.state.streams
       /\ isSome(result.state.streams[id])
       /\ get(result.state.streams[id]).terminated
       /\ Len(get(result.state.streams[id]).updates) = 2
       /\ get(result.state.streams[id]).updates[1].terminal
       /\ get(result.state.streams[id]).updates = LogUpdates(files[id].records)
       /\ Len(LogPending(files[id].records)) = 1
       /\ id \notin DOMAIN streams

\* C22: the queue and the two sets of a stream.  In every reachable state
\* and for every registered stream: acknowledged is a subset of received;
\* no status UUID of pending is in acknowledged; the status UUIDs of
\* pending are exactly received minus acknowledged, each of them once;
\* and pending is in the order of acceptance: for a checkpointed stream
\* whose file is in place the order of the UPDATE records of its log, and
\* where the history of delivery is kept the order of that history.
C22_Queue ==
  ~aborted =>
    \A id \in DOMAIN streams :
      LET stream == streams[id] IN
      /\ stream.acknowledged \subseteq stream.received
      /\ Uuids(stream.pending) \cap stream.acknowledged = {}
      /\ Uuids(stream.pending) = stream.received \ stream.acknowledged
      /\ \A i, j \in 1..Len(stream.pending) :
           stream.pending[i].status_uuid = stream.pending[j].status_uuid
             => i = j
      /\ (stream.checkpointed /\ stream.linked) =>
           stream.pending = LogPending(files[id].records)
      /\ delivery.kept =>
           stream.pending =
             SelectSeq(delivery.accepted[id],
                       LAMBDA u : get(u.status_uuid) \notin stream.acknowledged)

\* C22 witness: recover has registered a stream whose log holds two
\* updates and the acknowledgement of the first: the second is pending.
C22_Witness ==
  /\ ~aborted
  /\ result.value = "State"
  /\ \E id \in DOMAIN streams :
       /\ Len(streams[id].pending) = 1
       /\ Cardinality(streams[id].acknowledged) = 1
       /\ Cardinality(streams[id].received) = 2
       /\ Len(files[id].records) = 3
       /\ id \in DOMAIN result.state.streams
       /\ isSome(result.state.streams[id])

\* C23 as claimed: for every registered stream the timeout is set iff the
\* queue is not empty, the manager is not paused and the stream has no
\* error.
C23_TimeoutIff ==
  ~aborted =>
    \A id \in DOMAIN streams :
      isSome(streams[id].timeout) <=>
        /\ streams[id].pending # <<>>
        /\ ~paused
        /\ ~isSome(streams[id].error)

\* C23, amended: for every registered stream, a set timeout implies a
\* queue that is not empty, and a queue that is not empty implies a set
\* timeout when the manager is not paused and the stream has no error.
\* pause() and an update or acknowledgement whose checkpoint write fails
\* leave every stream's timeout as it was.
C23_Timeout ==
  ~aborted =>
    /\ \A id \in DOMAIN streams :
         /\ isSome(streams[id].timeout) => streams[id].pending # <<>>
         /\ (/\ streams[id].pending # <<>>
             /\ ~paused
             /\ ~isSome(streams[id].error)) => isSome(streams[id].timeout)
    /\ pause(World).streams = streams
    /\ \A id \in DOMAIN streams, write \in {"fail", "partial"} :
         (/\ streams[id].checkpointed
          /\ ~isSome(streams[id].error)) =>
           /\ \A uuid \in UUIDs :
                LET r == acknowledgement(World, id, uuid, write) IN
                isSome(r.world.streams[id].error) =>
                  r.world.streams[id].timeout = streams[id].timeout
           /\ \A u \in Updates :
                LET r == update(World, u, id, TRUE, "ok", write) IN
                isSome(r.world.streams[id].error) =>
                  r.world.streams[id].timeout = streams[id].timeout

\* C23 witness: pause() has run and a stream with a queued update still
\* has the timeout its last forward set.
C23_Witness ==
  /\ ~aborted
  /\ paused
  /\ result.value = "void"
  /\ forwarded = <<>>
  /\ \E id \in DOMAIN streams :
       /\ streams[id].pending # <<>>
       /\ isSome(streams[id].timeout)
       /\ ~isSome(streams[id].error)

\* The delayed dispatches of `timeout` for a stream id that have not run.
Outstanding(id) == Copies(timers, {timer \in DOMAIN timers : timer.id = id})

\* C24: in every reachable state at most one delayed dispatch of timeout
\* is outstanding for any stream id.
C24_OneTimer == \A id \in StreamIds : Outstanding(id) <= 1

\* C24 witness: an acknowledgement has forwarded the next update and armed
\* its timer while the timer of the acknowledged update is still
\* scheduled.
C24_Witness ==
  /\ ~aborted
  /\ result.value = "true"
  /\ Len(forwarded) = 1
  /\ Outstanding(forwarded[1].id) = 2

\* frameworkStreams mirrors the registered streams: it holds a stream id
\* under a framework iff a stream with that id is registered and has that
\* framework id, and it holds no empty set.
IndexMirrors ==
  ~aborted =>
    /\ \A f \in DOMAIN frameworkStreams :
         /\ frameworkStreams[f] # {}
         /\ \A id \in frameworkStreams[f] :
              id \in DOMAIN streams /\ streams[id].frameworkId = Some(f)
    /\ \A id \in DOMAIN streams :
         isSome(streams[id].frameworkId) =>
           /\ get(streams[id].frameworkId) \in DOMAIN frameworkStreams
           /\ id \in frameworkStreams[get(streams[id].frameworkId)]

\* A stream id that stays registered keeps its framework id.
FrameworkKept ==
  \A id \in DOMAIN streams :
    (~aborted' /\ id \in DOMAIN streams') =>
      streams'[id].frameworkId = streams[id].frameworkId

\* C25: in every reachable state frameworkStreams mirrors the registered
\* streams exactly and holds no empty set, and no step (update,
\* acknowledgement, cleanup, recover, also of a stream id that is
\* registered) changes the framework id of a stream id that stays
\* registered.
C25_IndexMirror == [](IndexMirrors) /\ [][FrameworkKept]_vars

\* C25 witness: recover has returned the state of a stream id that was
\* registered, and frameworkStreams holds that id under a framework that
\* is not the framework id of the stream now registered.
C25_Witness ==
  /\ ~aborted
  /\ result.value = "State"
  /\ \E f \in DOMAIN frameworkStreams : \E id \in frameworkStreams[f] :
       /\ id \in DOMAIN result.state.streams
       /\ isSome(result.state.streams[id])
       /\ id \in DOMAIN streams
       /\ streams[id].frameworkId # Some(f)

\* C26: the acknowledgement that succeeds.  In every reachable state, for
\* every acknowledgement that returns true (the update acknowledged was
\* not terminal): when the queue it leaves is not empty and the manager
\* is not paused, it forwards the new head once, with
\* STATUS_UPDATE_RETRY_INTERVAL_MIN whatever interval the stream's retries
\* had reached, arms one delayed dispatch with that interval and sets the
\* timeout to it; when the queue is empty or the manager is paused it
\* forwards nothing, arms nothing and leaves the timeout unset.
C26_AckForwardsNext ==
  \A id \in DOMAIN streams, uuid \in UUIDs, write \in WriteOutcomes :
    LET r == acknowledgement(World, id, uuid, write) IN
    (~aborted /\ r.value = "true") =>
      /\ ~r.world.aborted
      /\ id \in DOMAIN r.world.streams
      /\ r.world.streams[id].pending = Tail(streams[id].pending)
      /\ IF r.world.streams[id].pending # <<>> /\ ~paused
           THEN /\ r.world.forwarded =
                     <<[id |-> id,
                        update |-> Head(r.world.streams[id].pending),
                        duration |-> STATUS_UPDATE_RETRY_INTERVAL_MIN]>>
                /\ r.world.streams[id].timeout =
                     Some(STATUS_UPDATE_RETRY_INTERVAL_MIN)
                /\ r.world.timers =
                     timers (+) SetToBag({[id |-> id,
                        duration |-> STATUS_UPDATE_RETRY_INTERVAL_MIN,
                        remaining |-> STATUS_UPDATE_RETRY_INTERVAL_MIN]})
           ELSE /\ r.world.forwarded = <<>>
                /\ r.world.streams[id].timeout = None
                /\ r.world.timers = timers

\* C26 witness: an acknowledgement has returned true and forwarded the
\* next update with STATUS_UPDATE_RETRY_INTERVAL_MIN for a stream whose
\* retries of the acknowledged update had reached a longer interval.
C26_Witness ==
  /\ ~aborted
  /\ result.value = "true"
  /\ Len(forwarded) = 1
  /\ forwarded[1].duration = STATUS_UPDATE_RETRY_INTERVAL_MIN
  /\ forwarded[1].id \in DOMAIN streams
  /\ forwarded[1].update = Head(streams[forwarded[1].id].pending)
  /\ streams[forwarded[1].id].timeout = Some(STATUS_UPDATE_RETRY_INTERVAL_MIN)
  /\ \E timer \in BagToSet(timers) :
       /\ timer.id = forwarded[1].id
       /\ timer.duration > STATUS_UPDATE_RETRY_INTERVAL_MIN

\* The update `u` joined the queue of stream `id` in the world `w`: its
\* status UUID is received there and was not before.
Joined(w, u, id) ==
  /\ isSome(u.status_uuid)
  /\ id \in DOMAIN w.streams
  /\ get(u.status_uuid) \in w.streams[id].received
  /\ id \in DOMAIN streams => get(u.status_uuid) \notin streams[id].received

\* C27: when update forwards.  In every reachable state and for every
\* update, stream id, checkpoint flag and outcome of the file system
\* calls it makes: update calls forward iff the update joined the queue as a new
\* one, the manager is not paused and the queue then holds exactly that
\* update; it then forwards that update once, with
\* STATUS_UPDATE_RETRY_INTERVAL_MIN, and sets the timeout to it.  In every
\* other case (queued behind a head, duplicate, rejected, paused) it
\* forwards nothing, arms nothing and leaves the timeout as it was (None
\* for a stream it has just created).
C27_UpdateForwards ==
  \A u \in Updates, id \in StreamIds, checkpoint \in BOOLEAN :
  \A io \in (IF checkpoint /\ id \notin DOMAIN streams
                THEN IoOutcomes ELSE {"ok"}),
     write \in (IF checkpoint THEN WriteOutcomes ELSE {"ok"}) :
    LET r == update(World, u, id, checkpoint, io, write)
        forwards == /\ Joined(r.world, u, id)
                    /\ ~paused
                    /\ Len(r.world.streams[id].pending) = 1
    IN ~aborted =>
      /\ ~r.world.aborted
      /\ IF forwards
           THEN /\ r.world.forwarded =
                     <<[id |-> id, update |-> u,
                        duration |-> STATUS_UPDATE_RETRY_INTERVAL_MIN]>>
                /\ r.world.streams[id].timeout =
                     Some(STATUS_UPDATE_RETRY_INTERVAL_MIN)
                /\ r.value = "Nothing"
           ELSE /\ r.world.forwarded = <<>>
                /\ r.world.timers = timers
                /\ id \in DOMAIN r.world.streams =>
                     r.world.streams[id].timeout =
                       IF id \in DOMAIN streams
                         THEN streams[id].timeout ELSE None

\* C27 witness: an update has joined the queue behind a head that is not
\* acknowledged, while the manager is not paused: nothing was forwarded
\* and the timeout of the head stands.
C27_Witness ==
  /\ ~aborted
  /\ ~paused
  /\ result.value = "Nothing"
  /\ forwarded = <<>>
  /\ \E id \in DOMAIN streams :
       /\ Len(streams[id].pending) = 2
       /\ isSome(streams[id].timeout)
       /\ BagCardinality(timers) = 1

\* The forwards that `calls` holds for stream `id`.
ForwardsOf(calls, id) == SelectSeq(calls, LAMBDA call : call.id = id)

Waiting(id, u) ==
  /\ ~aborted
  /\ ~paused
  /\ id \in DOMAIN streams
  /\ streams[id].pending # <<>>
  /\ Head(streams[id].pending) = u

\* The last operation forwarded `u` for stream `id`.
Sent(id, u) ==
  \E i \in 1..Len(forwarded) : forwarded[i].id = id /\ forwarded[i].update = u

Dispatched(timer) == [World EXCEPT !.timers = @ (-) SetToBag({timer})]

\* C30: when a delayed dispatch forwards.  In every reachable state and
\* for every delayed dispatch whose delay has passed: timeout forwards only
\* if the manager is not paused, the stream is registered, its queue is
\* not empty and its recorded timeout has expired, and then it forwards
\* the head of the queue, once.  A dispatch that runs while the stream's
\* recorded timeout has not expired (a dispatch left over from an earlier
\* forward), or while the manager is paused, or for a stream that is not
\* registered or has an empty queue, forwards nothing and changes
\* nothing.
C30_TimeoutForwards ==
  ~aborted =>
    \A timer \in BagToSet(timers) :
      timer.remaining = 0 =>
        LET w == timeout(Dispatched(timer), timer.id, timer.duration)
            due == /\ ~paused
                   /\ timer.id \in DOMAIN streams
                   /\ streams[timer.id].pending # <<>>
                   /\ streams[timer.id].timeout = Some(0)
        IN /\ w.forwarded # <<>> =>
                /\ due
                /\ ~w.aborted
                /\ Len(w.forwarded) = 1
                /\ w.forwarded[1].id = timer.id
                /\ w.forwarded[1].update = Head(streams[timer.id].pending)
           /\ (\/ paused
               \/ timer.id \notin DOMAIN streams
               \/ streams[timer.id].pending = <<>>
               \/ \E left \in streams[timer.id].timeout : left > 0) =>
                w = Dispatched(timer)

\* C30 witness: the manager is not paused and a delayed dispatch is due
\* for a stream whose queue is not empty and whose recorded timeout, set
\* by a later forward, has not expired.
C30_Witness ==
  /\ ~aborted
  /\ ~paused
  /\ \E timer \in BagToSet(timers) :
       /\ timer.remaining = 0
       /\ timer.id \in DOMAIN streams
       /\ streams[timer.id].pending # <<>>
       /\ \E left \in streams[timer.id].timeout : left > 0
       /\ timeout(Dispatched(timer), timer.id, timer.duration) = Dispatched(timer)

\* What the read loop of StatusUpdateStream::recover makes of the first
\* `n` records of the file of stream `id`.
Replayed(id, n) ==
  Replay(NewStream(TRUE), <<>>, SubSeq(files[id].records, 1, n), 1)

\* C31: ACK records in recovery.  For every checkpoint file and every ACK
\* record in it that the read loop reaches: when the queue rebuilt from
\* the records before it is not empty, the ACK takes the head off the
\* queue, adds the status UUID of that head to acknowledged, sets
\* terminated if that head is terminal and changes nothing else; when
\* that queue is empty, recover of the stream fails: strict recover
\* returns a Failure, non-strict recover counts one error and reports no
\* state for the stream, and in both the stream is not registered, its
\* file is as it was and nothing is forwarded.
C31_ReplayAck ==
  \A id \in StreamIds :
    \A n \in 1..Len(files[id].records) :
      LET before == Replayed(id, n - 1)
          after == Replayed(id, n)
      IN (files[id].records[n].type = "ACK" /\ before.read = "none") =>
        IF before.stream.pending # <<>>
          THEN /\ after.read = "none"
               /\ after.stream =
                    [before.stream EXCEPT
                       !.pending = Tail(@),
                       !.acknowledged =
                          @ \cup {get(Head(before.stream.pending).status_uuid)},
                       !.terminated =
                          @ \/ Head(before.stream.pending).terminal]
               /\ after.updates = before.updates
          ELSE \A strict \in BOOLEAN :
                 LET r == recover(World, <<id>>, strict, <<0, "ok">>) IN
                 ~aborted =>
                   /\ ~r.world.aborted
                   /\ r.value = IF strict THEN "Failure: recover" ELSE "State"
                   /\ r.state.errors = IF strict THEN 0 ELSE 1
                   /\ id \notin DOMAIN r.state.streams
                   /\ id \notin DOMAIN r.world.streams
                   /\ r.world.files = files
                   /\ r.world.forwarded = <<>>

\* C31 witness: non-strict recover has counted an error for a stream
\* whose file holds an update, its acknowledgement and a second
\* acknowledgement; the stream is not registered.
C31_Witness ==
  /\ result.value = "State"
  /\ result.state.errors = 1
  /\ \E id \in StreamIds :
       /\ id \notin DOMAIN streams
       /\ id \notin DOMAIN result.state.streams
       /\ Len(files[id].records) = 3
       /\ files[id].records[1].type = "UPDATE"
       /\ files[id].records[2].type = "ACK"
       /\ files[id].records[3].type = "ACK"

\* C32: read errors in recovery.  For every checkpoint file in which the
\* read loop stops at a record it cannot parse: non-strict recover of the
\* stream returns a State that counts one error and reports the updates
\* read before that record with their terminated flag, and strict
\* recover returns a Failure.
C32_ReadError ==
  \A id \in StreamIds :
    LET r == Replayed(id, Len(files[id].records)) IN
    (~aborted /\ files[id].exists /\ r.read = "error") =>
      LET lenient == recover(World, <<id>>, FALSE, <<0, "ok">>)
          strictly == recover(World, <<id>>, TRUE, <<0, "ok">>)
      IN /\ lenient.value = "State"
         /\ lenient.state.errors = 1
         /\ id \in DOMAIN lenient.state.streams
         /\ lenient.state.streams[id] =
              Some([updates |-> r.updates, terminated |-> r.stream.terminated])
         /\ strictly.value = "Failure: recover"

\* C32 witness: the first record of a checkpoint file cannot be parsed,
\* and non-strict recover of its stream counts no error, reports None for
\* the stream and removes the file.
C32_Witness ==
  /\ ~aborted
  /\ \E id \in StreamIds :
       LET lenient == recover(World, <<id>>, FALSE, <<0, "ok">>) IN
       /\ files[id].exists
       /\ files[id].records # <<>>
       /\ files[id].records[1] = Garbled
       /\ lenient.value = "State"
       /\ lenient.state.errors = 0
       /\ lenient.state.streams = Put(<<>>, id, None)
       /\ ~lenient.world.files[id].exists

\* C33: no terminated stream stays registered.  In every reachable state
\* no registered stream has terminated set.  An acknowledgement that
\* sets terminated returns false and leaves the stream out of streams;
\* every other acknowledgement leaves terminated as it was.  When recover reports a stream as terminated, streams and
\* frameworkStreams are as before the call and nothing is forwarded.
C33_NoTerminated ==
  ~aborted =>
    /\ \A id \in DOMAIN streams : ~streams[id].terminated
    /\ \A id \in DOMAIN streams, uuid \in UUIDs, write \in WriteOutcomes :
         LET r == acknowledgement(World, id, uuid, write)
             s == Stream_acknowledgement(streams[id], files[id], uuid, write)
         IN /\ ~r.world.aborted
            /\ s.stream.terminated =>
                 /\ s.value = "true"
                 /\ r.value = "false"
                 /\ id \notin DOMAIN r.world.streams
            /\ ~s.stream.terminated =>
                 /\ id \in DOMAIN r.world.streams
                 /\ ~r.world.streams[id].terminated
    /\ \A id \in StreamIds, strict \in BOOLEAN, call \in RecoverIo :
         LET r == recover(World, <<id>>, strict, <<1, call>>) IN
         (/\ r.value = "State"
          /\ id \in DOMAIN r.state.streams
          /\ isSome(r.state.streams[id])
          /\ get(r.state.streams[id]).terminated) =>
            /\ ~r.world.aborted
            /\ r.world.streams = streams
            /\ r.world.frameworkStreams = frameworkStreams
            /\ r.world.forwarded = <<>>

\* C33 witness: the acknowledgement of the terminal update at the head of
\* a queue of two has returned false and removed the stream, and recover
\* of the stream's log would report it as terminated without registering
\* it.
C33_Witness ==
  /\ ~aborted
  /\ result.value = "false"
  /\ \E id \in StreamIds :
       LET r == recover(World, <<id>>, TRUE, <<0, "ok">>) IN
       /\ id \notin DOMAIN streams
       /\ \A f \in DOMAIN frameworkStreams : id \notin frameworkStreams[f]
       /\ Len(files[id].records) = 3
       /\ files[id].records[3].type = "ACK"
       /\ files[id].records[1].update = Some([get(files[id].records[1].update)
                                               EXCEPT !.terminal = TRUE])
       /\ r.value = "State"
       /\ get(r.state.streams[id]).terminated
       /\ id \notin DOMAIN r.world.streams

\* C34: CHECK_NONE(stream->timeout) in update.  In every reachable state
\* no registered stream has a timeout set while its queue is empty; and
\* for every update, stream id and outcome of the write: update does not
\* fail that CHECK, and when the update joins the queue as its only
\* element while the manager is not paused, the timeout of the stream
\* was unset before the call.
C34_CheckNone ==
  ~aborted =>
    /\ \A id \in DOMAIN streams :
         isSome(streams[id].timeout) => streams[id].pending # <<>>
    /\ \A u \in Updates, id \in StreamIds, write \in WriteOutcomes :
         LET r == update(World, u, id, TRUE, "ok", write) IN
         /\ r.world.check # "CHECK_NONE(stream->timeout)"
         /\ (/\ Joined(r.world, u, id)
             /\ ~paused
             /\ Len(r.world.streams[id].pending) = 1) =>
              /\ id \in DOMAIN streams => ~isSome(streams[id].timeout)
              /\ ~r.world.aborted

\* C34 witness: the manager is not paused and an update has just joined,
\* as its only element, the queue of a stream that had forwarded and seen
\* acknowledged an earlier update; it was forwarded and the timeout is
\* set.
C34_Witness ==
  /\ ~aborted
  /\ ~paused
  /\ result.value = "Nothing"
  /\ \E id \in DOMAIN streams :
       /\ streams[id].acknowledged # {}
       /\ Len(streams[id].pending) = 1
       /\ isSome(streams[id].timeout)
       /\ forwarded = <<[id |-> id, update |-> streams[id].pending[1],
                         duration |-> STATUS_UPDATE_RETRY_INTERVAL_MIN]>>

\* C35: CHECK_SOME(stream->timeout) in timeout.  In every reachable state
\* no run of timeout has failed that CHECK, and for every delayed
\* dispatch whose delay has passed, while the manager is not paused, for
\* a registered stream whose queue is not empty: the timeout of the
\* stream is set and timeout does not fail the CHECK.
C35_CheckSome ==
  /\ result.value # "CHECK_SOME(stream->timeout)"
  /\ ~aborted =>
       \A timer \in BagToSet(timers) :
         (/\ timer.remaining = 0
          /\ ~paused
          /\ timer.id \in DOMAIN streams
          /\ streams[timer.id].pending # <<>>) =>
            /\ isSome(streams[timer.id].timeout)
            /\ ~timeout(Dispatched(timer), timer.id, timer.duration).aborted

\* C35 witness: the manager is not paused and a delayed dispatch is due
\* for a registered stream that has a sticky error, a queue that is not
\* empty and no timeout: timeout fails CHECK_SOME(stream->timeout).
C35_Witness ==
  /\ ~aborted
  /\ ~paused
  /\ \E timer \in BagToSet(timers) :
       /\ timer.remaining = 0
       /\ timer.id \in DOMAIN streams
       /\ isSome(streams[timer.id].error)
       /\ streams[timer.id].pending # <<>>
       /\ ~isSome(streams[timer.id].timeout)
       /\ timeout(Dispatched(timer), timer.id, timer.duration).check =
            "CHECK_SOME(stream->timeout)"

\* Every forward of the step passed the head of the queue of a stream
\* that is registered after the step.
ForwardsHead ==
  \A i \in 1..Len(forwarded') :
    /\ forwarded'[i].id \in DOMAIN streams'
    /\ streams'[forwarded'[i].id].pending # <<>>
    /\ forwarded'[i].update = Head(streams'[forwarded'[i].id].pending)

\* An acknowledgement of the terminal head of a queue that holds more
\* updates removes the stream, returns false and forwards nothing; in the
\* world it leaves, resume and every delayed dispatch forward nothing
\* for the stream, and recover of the log of the stream, if it kept one,
\* forwards nothing for it and does not register it.
Discards ==
  ~aborted =>
    \A id \in DOMAIN streams, uuid \in UUIDs, write \in WriteOutcomes :
      LET r == acknowledgement(World, id, uuid, write)
          s == Stream_acknowledgement(streams[id], files[id], uuid, write)
      IN (s.stream.terminated /\ s.stream.pending # <<>>) =>
           /\ ~r.world.aborted
           /\ r.value = "false"
           /\ id \notin DOMAIN r.world.streams
           /\ r.world.forwarded = <<>>
           /\ r.world.timers = timers
           /\ \A ids \in Orders(DOMAIN r.world.streams) :
                ForwardsOf(resume(r.world, ids).forwarded, id) = <<>>
           /\ \A timer \in BagToSet(r.world.timers) :
                ForwardsOf(
                  timeout([r.world EXCEPT !.timers = @ (-) SetToBag({timer})],
                          timer.id, timer.duration).forwarded, id) = <<>>
           /\ streams[id].checkpointed =>
                \A strict \in BOOLEAN, call \in RecoverIo :
                  LET again == recover(r.world, <<id>>, strict, <<1, call>>) IN
                  /\ ForwardsOf(again.world.forwarded, id) = <<>>
                  /\ id \notin DOMAIN again.world.streams

\* C36: a terminal acknowledgement discards the rest of the queue.  In
\* every reachable state an acknowledgement of a terminal head with
\* updates queued behind it removes the stream and returns false, and the
\* updates left in the queue are forwarded neither by it nor by resume, a
\* delayed dispatch or recover afterwards; and every step forwards only
\* the head of the queue of a stream that is registered after it.
C36_Discarded == [](Discards) /\ [][ForwardsHead]_vars

\* C36 witness: the acknowledgement of a terminal update has returned
\* false and removed a stream whose log holds a second update that was
\* never acknowledged; nothing was forwarded and a delayed dispatch for
\* the stream is still outstanding.
C36_Witness ==
  /\ ~aborted
  /\ result.value = "false"
  /\ forwarded = <<>>
  /\ \E id \in StreamIds :
       /\ id \notin DOMAIN streams
       /\ Len(LogPending(files[id].records)) = 1
       /\ LogTerminated(files[id].records)
       /\ \E timer \in BagToSet(timers) : timer.id = id

====
